---- MODULE Spec2Model ----
(***************************************************************************)
(* Model of the command-template pipeline engine of fajar23332/alltools:   *)
(* tools.py (slugify_target, combine_unique_files, stream_process,         *)
(* run_combo_tool, execute_combo_workflow) and run.py (BugxRunner).        *)
(*                                                                         *)
(* Strings are sequences of one-character strings.  A text file is a       *)
(* sequence of lines (a line is a string without its newline); a path      *)
(* that does not exist holds the value Missing.                            *)
(***************************************************************************)
EXTENDS Naturals, Integers, Sequences, FiniteSets, TLC

VARIABLES
    \* ---- slugify_target (tools.py) ----
    raw,            \* the target string handed to slugify_target
    prefix,         \* a scheme / www. prefix put in front of raw for the paired call
    called,         \* which of the two calls have returned: "plain", "prefixed"
    slug,           \* slugify_target(raw)
    prefixedSlug,   \* slugify_target(prefix + raw)
    \* ---- combine_unique_files (tools.py) ----
    mfs,            \* file system: path -> sequence of lines, or Missing
    mfiles,         \* the argument `files`
    mret,           \* the returned count
    mpc,            \* "call" before, "done" after the call
    \* ---- execute_combo_workflow (tools.py) ----
    choice,         \* the workflow key handed to execute_combo_workflow
    cstate,         \* "pending", "running", "printed" (summary shown), "interrupted", "idle"
    cpc,            \* index of the next operation of the workflow body
    cfs,            \* files of COMBO_DIR/<slug>: name -> file
    child,          \* the child process of stream_process
    waited,         \* seconds stream_process has been blocked on the running child
    steps,          \* one record per run_combo_tool call made so far
    counts,         \* values returned by combine_unique_files / run_gf_filter
    summary,        \* the summary lines printed at the end
    gf_status,      \* how the last run_gf_filter went: "absent", "failed", "ok"; "" before
    \* ---- BugxRunner (run.py) ----
    mode,           \* mode_num handed to run_mode
    bstate,         \* "pending", "running", "done", "idle"
    bpc,            \* label of the next statement of the mode function
    tmp,            \* files of TMP_DIR: name -> file
    timeout,        \* the timeout argument of _execute_command, in seconds
    ex,             \* position inside _execute_command
    elapsed,        \* seconds since the Popen of the current _execute_command
    deadline,       \* value of elapsed at which the current join gives up
    process,        \* the Popen child (sh -c command)
    proc,           \* the tool process started by that shell
    readers,        \* the stdout / stderr reader threads of the current call
    orphans,        \* tools of earlier steps that are still running
    leaked,         \* steps whose reader threads are still running
    launches,       \* one record per command started
    ret,            \* value returned by the last _execute_command
    checked,        \* what _run_recon found when it looked at the subdomains file
    findings,       \* number of findings collected by the mode function
    console,        \* what has been printed: step footers and the summary box
    \* ---- choose_flags and build_command (tools.py) ----
    ftool,          \* the tool whose command is built
    fis_file,       \* focus.is_file of the chosen focus option
    selected,       \* the flags the caller picked in choose_flags (possibly none)
    flags,          \* the list returned by choose_flags
    command,        \* the command line built by build_command, as its words
    fpc,            \* "choose", "build", "done", "idle"
    \* ---- run_combo_mode: the targets of a workflow (tools.py) ----
    target_mode,    \* "1" single domain, "2" file with a list of domains
    typed,          \* what the user types at the prompt of prompt_target
    listfile,       \* the file named at the prompt in target mode "2"
    targets,        \* the list `targets`
    executed,       \* the targets execute_combo_workflow has been called with
    lpc,            \* "prompt", "loop", "returned", "idle"
    \* ---- BugxRunner._run_url_collection and its first consumer (run.py) ----
    upc,            \* "katana", "gau", "merge", "gf", "done", "idle"
    ufs,            \* the URL files of TMP_DIR: name -> file (a URL is a number)
    merged,         \* how the merging shell pipeline ended: "", "ok", "failed"
    ulaunches,      \* the commands started, in order
    \* ---- two scans that share TMP_DIR (run.py) ----
    stargets,       \* run -> its target
    spc,            \* run -> "recon", "check", "sqlmap", "walk", "cleanup", "done", "idle"
    sfs,            \* item of TMP_DIR -> the run that wrote it last, 0 when absent
    touched,        \* accesses of one run to an item written by the other, running, run
    \* ---- output directories and artifacts of build_command (tools.py) ----
    calls,          \* call -> the arguments of that call of build_command
    results,        \* call -> what the call has returned or raised so far
    dirs,           \* the directories that exist under the output roots
    registry,       \* the keys of TOOL_CONFIGS
    \* ---- setup.py: two runs of main in one environment ----
    check,          \* args.check
    on_path,        \* the tools shutil.which finds
    venv_dir,       \* whether ~/venv exists
    rc_alias,       \* whether the shell rc files hold the alias block
    setup_pc,       \* the step of main that comes next; "done", "idle"
    did,            \* what the current run has installed, cloned, created or written
    report,         \* install_report.json as written by the current run
    run_no,         \* 1 or 2: the second run starts when the first is done
    prev,           \* the report of the first run
    \* ---- BugxRunner.interactive_mode: the speed prompt (run.py) ----
    typed_speed,    \* what the user types at the speed prompt
    speed,          \* the value of `speed` after run.py:1159
    speed_cmds,     \* the speed arguments of the commands built for the run
    speed_pc,       \* "prompt", "run", "done", "idle"
    \* ---- ensure_venv_execution (tools.py) ----
    venv_python,    \* whether ~/venv/bin/python3 exists
    procs           \* the chain of processes: the one the user started and its children

slugVars == <<raw, prefix, called, slug, prefixedSlug>>
mergeVars == <<mfs, mfiles, mret, mpc>>
comboVars == <<choice, cstate, cpc, cfs, child, waited, steps, counts, summary, gf_status>>
bugxVars == <<mode, bstate, bpc, tmp, timeout, ex, elapsed, deadline, process, proc, readers,
              orphans, leaked, launches, ret, checked, findings, console>>
flagVars == <<ftool, fis_file, selected, flags, command, fpc>>
listVars == <<target_mode, typed, listfile, targets, executed, lpc>>
urlVars == <<upc, ufs, merged, ulaunches>>
scratchVars == <<stargets, spc, sfs, touched>>
dirVars == <<calls, results, dirs, registry>>
laterVars == <<flagVars, listVars, urlVars, scratchVars, dirVars>>
setupVars == <<check, on_path, venv_dir, rc_alias, setup_pc, did, report, run_no, prev>>
speedVars == <<typed_speed, speed, speed_cmds, speed_pc>>
venvVars == <<venv_python, procs>>
lastVars == <<setupVars, speedVars, venvVars>>
vars == <<slugVars, mergeVars, comboVars, bugxVars, laterVars, lastVars>>

(***************************************************************************)
(* Bounds                                                                  *)
(***************************************************************************)
MaxBody == 3        \* longest host/path part of a modelled target string
MaxFileLines == 2   \* most lines in a modelled input file
MaxWait == 3        \* seconds of blocking on one child that the model follows
MaxTimeout == 2     \* largest timeout argument of _execute_command that is modelled
MaxFlags == 2       \* most flags picked by the caller in choose_flags
MaxSpeedLen == 2    \* most characters typed at the speed prompt
MaxExit == 12       \* largest exit code of the main loop that is modelled
MaxDepth == 3       \* longest chain of re-executions the model follows

(***************************************************************************)
(* Characters and Python str helpers                                       *)
(***************************************************************************)
\* a path that does not exist, and a regular file holding the given lines
Missing == [exists |-> FALSE, lines |-> <<>>]
File(lines) == [exists |-> TRUE, lines |-> lines]

\* "e_acute" stands for the single non-ASCII letter U+00E9, for which
\* Python's str.isalnum() is True and str.lower() is the identity.
NonAsciiLetter == "e_acute"
Whitespace == {" ", "\t", "\n"}

Min(S) == CHOOSE x \in S : \A y \in S : x <= y
Max(S) == CHOOSE x \in S : \A y \in S : x >= y

\* str.isalnum() of one character (Unicode aware), on the characters of the
\* model: lower-case letters, "A", "1" and a non-ASCII letter
isalnum(ch) == ch \in {"a", "h", "t", "p", "s", "w", "r", "g", "e", "A", "1", NonAsciiLetter}

LowerChar(ch) == IF ch = "A" THEN "a" ELSE ch
\* str.lower()
lower(s) == [i \in 1..Len(s) |-> LowerChar(s[i])]

\* str.strip(): drop leading and trailing whitespace
strip(s) ==
    LET keep == {i \in 1..Len(s) : s[i] \notin Whitespace}
    IN  IF keep = {} THEN <<>> ELSE SubSeq(s, Min(keep), Max(keep))

\* str.startswith(p)
startswith(s, p) == Len(s) >= Len(p) /\ SubSeq(s, 1, Len(p)) = p

\* s[n:]
DropFirst(s, n) == SubSeq(s, n + 1, Len(s))

\* s.split(c)[0]: the part of s before the first occurrence of c
FirstField(s, c) ==
    LET at == {i \in 1..Len(s) : s[i] = c}
    IN  IF at = {} THEN s ELSE SubSeq(s, 1, Min(at) - 1)

Contains(s, c) == \E i \in 1..Len(s) : s[i] = c

HTTPS == <<"h", "t", "t", "p", "s", ":", "/", "/">>
HTTP == <<"h", "t", "t", "p", ":", "/", "/">>
WWW == <<"w", "w", "w", ".">>
TARGET == <<"t", "a", "r", "g", "e", "t">>

(***************************************************************************)
(* slugify_target, tools.py:150-165                                        *)
(***************************************************************************)
StripScheme(cleaned, p) == IF startswith(cleaned, p) THEN DropFirst(cleaned, Len(p)) ELSE cleaned

\* mutant: the leading "www." is kept
StripWwwKept(cleaned) == cleaned
StripWww(cleaned) == IF startswith(cleaned, WWW) THEN DropFirst(cleaned, 4) ELSE cleaned

FirstLabel(cleaned) == IF Contains(cleaned, ".") THEN FirstField(cleaned, ".") ELSE cleaned

Underscore(cleaned) == [i \in 1..Len(cleaned) |-> IF isalnum(cleaned[i]) THEN cleaned[i] ELSE "_"]

slugify_target(r) ==
    LET c0 == lower(strip(r))
        c1 == StripScheme(c0, HTTPS)
        c2 == StripScheme(c1, HTTP)
        c3 == FirstField(c2, "/")
        c4 == StripWww(c3)
        c5 == FirstLabel(c4)
        c6 == Underscore(c5)
    IN  IF c6 = <<>> THEN TARGET ELSE c6

\* validate_domain, tools.py:540-541
validate_domain(domain) ==
    Contains(domain, ".") /\ ~Contains(domain, " ") /\ ~Contains(domain, "/")

(***************************************************************************)
(* Inputs of the slug specification                                        *)
(***************************************************************************)
BodyChars == {"a", "A", "1", ".", "/", " ", NonAsciiLetter}
Bodies == UNION {[1..n -> BodyChars] : n \in 0..MaxBody}
Leads == {<<>>, HTTPS, HTTP, WWW}
Prefixes == {HTTPS, HTTP, WWW, HTTPS \o WWW, HTTP \o WWW}

\* the parts of the model other than part `running` are at rest: each
\* specification runs one part
OthersIdle(running) ==
    /\ IF running = "slug" THEN TRUE
       ELSE /\ raw = <<>>
            /\ prefix = <<>>
            /\ called = {}
            /\ slug = <<>>
            /\ prefixedSlug = <<>>
    /\ IF running = "merge" THEN TRUE
       ELSE /\ mfs = <<>>
            /\ mfiles = <<>>
            /\ mret = 0
            /\ mpc = "idle"
    /\ IF running = "combo" THEN TRUE
       ELSE /\ choice = ""
            /\ cstate = "idle"
            /\ cpc = 0
            /\ cfs = <<>>
            /\ child = <<>>
            /\ waited = 0
            /\ steps = <<>>
            /\ counts = <<>>
            /\ summary = <<>>
            /\ gf_status = ""
    /\ IF running = "bugx" THEN TRUE
       ELSE /\ mode = 0
            /\ bstate = "idle"
            /\ bpc = ""
            /\ tmp = <<>>
            /\ timeout = 0
            /\ ex = "idle"
            /\ elapsed = 0
            /\ deadline = 0
            /\ process = <<>>
            /\ proc = "none"
            /\ readers = <<>>
            /\ orphans = {}
            /\ leaked = {}
            /\ launches = <<>>
            /\ ret = "none"
            /\ checked = "none"
            /\ findings = 0
            /\ console = <<>>
    /\ IF running = "flag" THEN TRUE
       ELSE /\ ftool = ""
            /\ fis_file = FALSE
            /\ selected = <<>>
            /\ flags = <<>>
            /\ command = <<>>
            /\ fpc = "idle"
    /\ IF running = "list" THEN TRUE
       ELSE /\ target_mode = ""
            /\ typed = <<>>
            /\ listfile = Missing
            /\ targets = <<>>
            /\ executed = <<>>
            /\ lpc = "idle"
    /\ IF running = "url" THEN TRUE
       ELSE /\ upc = "idle"
            /\ ufs = <<>>
            /\ merged = ""
            /\ ulaunches = <<>>
    /\ IF running = "scratch" THEN TRUE
       ELSE /\ stargets = <<>>
            /\ spc = <<>>
            /\ sfs = <<>>
            /\ touched = {}
    /\ IF running = "dir" THEN TRUE
       ELSE /\ calls = <<>>
            /\ results = <<>>
            /\ dirs = {}
            /\ registry = {}
    /\ IF running = "setup" THEN TRUE
       ELSE /\ check = FALSE
            /\ on_path = {}
            /\ venv_dir = FALSE
            /\ rc_alias = FALSE
            /\ setup_pc = "idle"
            /\ did = {}
            /\ report = <<>>
            /\ run_no = 0
            /\ prev = <<>>
    /\ IF running = "speed" THEN TRUE
       ELSE /\ typed_speed = <<>>
            /\ speed = <<>>
            /\ speed_cmds = <<>>
            /\ speed_pc = "idle"
    /\ IF running = "venv" THEN TRUE
       ELSE /\ venv_python = FALSE
            /\ procs = <<>>

InitSlug ==
    /\ raw \in {l \o b : l \in Leads, b \in Bodies}
    /\ prefix \in Prefixes
    /\ called = {}
    /\ slug = <<>>
    /\ prefixedSlug = <<>>
    /\ OthersIdle("slug")

\* slug = slugify_target(raw)
SlugifyPlain ==
    /\ "plain" \notin called
    /\ slug' = slugify_target(raw)
    /\ called' = called \cup {"plain"}
    /\ UNCHANGED <<raw, prefix, prefixedSlug, mergeVars, comboVars, bugxVars, laterVars, lastVars>>

\* prefixedSlug = slugify_target(prefix + raw)
SlugifyPrefixed ==
    /\ "prefixed" \notin called
    /\ prefixedSlug' = slugify_target(prefix \o raw)
    /\ called' = called \cup {"prefixed"}
    /\ UNCHANGED <<raw, prefix, slug, mergeVars, comboVars, bugxVars, laterVars, lastVars>>

(***************************************************************************)
(* combine_unique_files, tools.py:223-238                                  *)
(***************************************************************************)
\* mutant: the membership test `line in seen` is dropped
ScanLineNoDedup(line, acc) ==
    IF line = <<>>
    THEN acc
    ELSE [seen |-> acc.seen \cup {line}, out |-> Append(acc.out, line)]
\* one iteration of `for line in fh`, after line = line.strip()
ScanLine(line, acc) ==
    IF line = <<>> \/ line \in acc.seen
    THEN acc
    ELSE [seen |-> acc.seen \cup {line}, out |-> Append(acc.out, line)]

RECURSIVE ScanLines(_, _)
ScanLines(lines, acc) ==
    IF lines = <<>>
    THEN acc
    ELSE ScanLines(Tail(lines), ScanLine(strip(Head(lines)), acc))

RECURSIVE ScanFiles(_, _, _)
ScanFiles(fs, files, acc) ==
    IF files = <<>>
    THEN acc
    ELSE IF ~fs[Head(files)].exists
         THEN ScanFiles(fs, Tail(files), acc)
         ELSE ScanFiles(fs, Tail(files), ScanLines(fs[Head(files)].lines, acc))

\* mutant: the destination is opened for appending
combine_unique_files_append(fs, files, destination) ==
    LET acc == ScanFiles(fs, files, [seen |-> {}, out |-> <<>>])
    IN  [fs |-> [fs EXCEPT ![destination] = File(fs[destination].lines \o acc.out)],
         ret |-> Cardinality(acc.seen)]
\* returns the file system after the call and the returned count
combine_unique_files(fs, files, destination) ==
    LET opened == [fs EXCEPT ![destination] = File(<<>>)]
        acc == ScanFiles(opened, files, [seen |-> {}, out |-> <<>>])
    IN  [fs |-> [opened EXCEPT ![destination] = File(acc.out)], ret |-> Cardinality(acc.seen)]

\* count_lines, tools.py:241-245
count_lines(fs, path) ==
    IF ~fs[path].exists
    THEN 0
    ELSE Cardinality({i \in 1..Len(fs[path].lines) : strip(fs[path].lines[i]) # <<>>})

(***************************************************************************)
(* Inputs of the merge specification                                       *)
(***************************************************************************)
MergeInputs == {"f1", "f2"}
MergeDest == "dest"
MergePaths == MergeInputs \cup {MergeDest}
MergeLines == {<<>>, <<"a">>, <<"A">>, <<" ", "a">>, <<"b", "\t">>}
MergeContents == {File(l) : l \in UNION {[1..n -> MergeLines] : n \in 0..MaxFileLines}}

InitMerge ==
    /\ mfs \in {f \in [MergePaths -> MergeContents \cup {Missing}] :
                    f[MergeDest] \in {Missing, File(<<<<"a">>, <<"a">>>>)}}
    /\ mfiles \in UNION {[1..n -> MergeInputs] : n \in 0..2}
    /\ mret = 0
    /\ mpc = "call"
    /\ OthersIdle("merge")

\* mret = combine_unique_files(mfiles, dest)
CombineUniqueFiles ==
    /\ mpc = "call"
    /\ LET r == combine_unique_files(mfs, mfiles, MergeDest)
       IN  /\ mfs' = r.fs
           /\ mret' = r.ret
    /\ mpc' = "done"
    /\ UNCHANGED <<mfiles, slugVars, comboVars, bugxVars, laterVars, lastVars>>

(***************************************************************************)
(* Tool registry and build_command, tools.py:615-851 and 1018-1271         *)
(* (the tools the combo workflows use)                                     *)
(***************************************************************************)
ComboTools == {"subfinder", "assetfinder", "amass", "dnsx", "httpx", "nuclei", "gau",
               "paramspider", "dalfox", "XSpear", "sqlmap", "wpscan", "xpoc"}

\* mutant: no focus option of the registry is a file-mode one
FocusIsFileNever(tool, focus_index) == FALSE
\* FocusOption.is_file of TOOL_CONFIGS[tool].focus_options[focus_index]
FocusIsFile(tool, focus_index) ==
    CASE tool = "httpx" -> focus_index = 0
      [] tool \in {"dnsx", "nuclei"} -> focus_index = 0
      [] tool \in {"dalfox", "XSpear", "sqlmap"} -> focus_index = 1
      [] OTHER -> FALSE

\* number of entries of TOOL_CONFIGS[tool].focus_options
FocusCount(tool) ==
    IF tool \in {"httpx", "dalfox", "XSpear", "sqlmap"} THEN 2 ELSE 1

\* name of the output artifact inside output_root/<slug>/
OutputName(tool) ==
    CASE tool = "subfinder" -> "subfinder.txt"
      [] tool = "assetfinder" -> "assetfinder.txt"
      [] tool = "amass" -> "amass.txt"
      [] tool = "gau" -> "gau.txt"
      [] tool = "httpx" -> "httpx.txt"
      [] tool = "dnsx" -> "dnsx.txt"
      [] tool = "nuclei" -> "nuclei.json"
      [] tool = "sqlmap" -> "sqlmap"
      [] tool = "wpscan" -> "wpscan.txt"
      [] tool = "dalfox" -> "dalfox.txt"
      [] tool = "XSpear" -> "XSpear.txt"
      [] tool = "xpoc" -> "xpoc.json"
      [] tool = "paramspider" -> "paramspider.txt"

\* the first component of build_command's result is an f-string (tools.py:
\* 1052-1054, 1064-1066, 1071-1076, 1152-1157) and not a list
CommandIsString(tool) == tool \in {"assetfinder", "gau", "waybackurls", "httprobe"}

\* mutant: build_command never asks for a shell
ShellFormNever(tool) == FALSE
\* the third component of build_command's result: True is returned at
\* tools.py:1055, 1067, 1077 and 1158, the initial False everywhere else
ShellForm(tool) == tool \in {"assetfinder", "gau", "waybackurls", "httprobe"}

\* the option in front of the target in the built command
InputOption(tool, is_file) ==
    CASE tool \in {"subfinder", "amass"} -> "-d"
      [] tool \in {"assetfinder", "gau"} -> ""
      [] tool = "httpx" -> IF is_file THEN "-l" ELSE "-u"
      [] tool \in {"dnsx", "nuclei"} -> "-l"
      [] tool = "sqlmap" -> IF is_file THEN "-m" ELSE "-u"
      [] tool = "dalfox" -> IF is_file THEN "--input" ELSE "url"
      [] tool = "XSpear" -> IF is_file THEN "-f" ELSE "-u"
      [] tool \in {"wpscan", "xpoc"} -> "--url"
      [] tool = "paramspider" -> "--domain"

build_command(tool, target, focus_index) ==
    [prog |-> tool,
     option |-> InputOption(tool, FocusIsFile(tool, focus_index)),
     target |-> target,
     output_path |-> OutputName(tool),
     shell |-> ShellForm(tool)]

(***************************************************************************)
(* The workflow bodies of execute_combo_workflow, tools.py:323-442         *)
(***************************************************************************)
\* the user's target, and ensure_url(target)
Literal == "<target>"
TargetUrl == "<https://target>"

ToolOp(tool, target, focus_index) ==
    [op |-> "tool", tool |-> tool, target |-> target, focus |-> focus_index,
     files |-> <<>>, dest |-> ""]
MergeOp(files, dest) ==
    [op |-> "merge", tool |-> "", target |-> "", focus |-> 0, files |-> files, dest |-> dest]
GfOp(pattern, source, dest) ==
    [op |-> "gf", tool |-> pattern, target |-> source, focus |-> 0, files |-> <<>>, dest |-> dest]

Workflow(c) ==
    CASE c = "1" ->
            <<ToolOp("subfinder", Literal, 0),
              ToolOp("assetfinder", Literal, 0),
              ToolOp("amass", Literal, 0),
              MergeOp(<<"subfinder.txt", "assetfinder.txt", "amass.txt">>, "subdomains_all.txt"),
              ToolOp("dnsx", "subdomains_all.txt", 0),
              ToolOp("httpx", "dnsx.txt", 0),
              ToolOp("nuclei", "httpx.txt", 0)>>
      [] c = "2" ->
            <<ToolOp("gau", Literal, 0),
              ToolOp("paramspider", Literal, 0),
              MergeOp(<<"gau.txt", "paramspider.txt">>, "urls_all.txt"),
              GfOp("xss", "urls_all.txt", "xss_candidates.txt"),
              ToolOp("dalfox", "xss_candidates.txt", 1),
              ToolOp("XSpear", "xss_candidates.txt", 1)>>
      [] c = "3" ->
            <<ToolOp("gau", Literal, 0),
              ToolOp("paramspider", Literal, 0),
              MergeOp(<<"gau.txt", "paramspider.txt">>, "urls_all.txt"),
              GfOp("xss", "urls_all.txt", "xss_candidates.txt"),
              ToolOp("XSpear", "xss_candidates.txt", 1)>>
      [] c = "4" ->
            <<ToolOp("gau", Literal, 0),
              MergeOp(<<"gau.txt">>, "urls_all.txt"),
              GfOp("sqli", "urls_all.txt", "sqli_candidates.txt"),
              ToolOp("sqlmap", "sqli_candidates.txt", 1)>>
      [] c = "5" ->
            <<ToolOp("httpx", TargetUrl, 1),
              ToolOp("wpscan", TargetUrl, 0)>>
      [] c = "6" ->
            <<ToolOp("httpx", TargetUrl, 1),
              ToolOp("xpoc", TargetUrl, 0)>>
      [] OTHER -> <<>>

ComboPaths ==
    {OutputName(t) : t \in ComboTools}
        \cup {"subdomains_all.txt", "urls_all.txt", "xss_candidates.txt", "sqli_candidates.txt"}

\* whether the target of a step is a path inside the combo directory
IsPath(target) == target \in ComboPaths

\* what a tool that runs may leave in its output file
ToolLines(tool) ==
    IF tool \in {"subfinder", "gau"}
    THEN <<<<"a">>, <<"b", "\t">>>>
    ELSE <<<<"b", "\t">>, <<"A">>>>

NoChild == [st |-> "none", present |-> FALSE, rc |-> 0]

(***************************************************************************)
(* execute_combo_workflow, run_combo_tool, stream_process                  *)
(***************************************************************************)

InitCombo ==
    /\ choice \in {"1", "2", "3", "4", "5", "6"}
    /\ cstate = "pending"
    /\ cpc = 0
    /\ cfs = [p \in ComboPaths |-> Missing]
    /\ child = NoChild
    /\ waited = 0
    /\ steps = <<>>
    /\ counts = <<>>
    /\ summary = <<>>
    /\ gf_status = ""
    /\ OthersIdle("combo")

CurrentOp == Workflow(choice)[cpc]
AtOp(kind) ==
    /\ cstate = "running"
    /\ cpc \in 1..Len(Workflow(choice))
    /\ CurrentOp.op = kind

\* tools.py:315-320: slug, combo_dir.mkdir, start, summary = []
StartWorkflow ==
    /\ cstate = "pending"
    /\ cstate' = "running"
    /\ cpc' = 1
    /\ UNCHANGED <<choice, cfs, child, waited, steps, counts, summary, gf_status, slugVars, mergeVars, bugxVars,
                   laterVars, lastVars>>

\* the handler `except Exception as exc`, tools.py:444-445
ExceptHandler(error) ==
    /\ cpc' = Len(Workflow(choice)) + 1
    /\ summary' = Append(summary, <<"error", error>>)

\* build_command's directory creation, tools.py:1033 and 1161-1162
MakeOutputDirs(fs, tool) ==
    IF tool = "sqlmap" THEN [fs EXCEPT !["sqlmap"] = File(<<>>)] ELSE fs

\* subprocess.Popen raises FileNotFoundError when an argument vector names a
\* binary that is not on the search path; a shell string always starts sh
SpawnRaises(shell, present) == ~shell /\ ~present

\* run_combo_tool up to and including subprocess.Popen in stream_process,
\* tools.py:286-306 and 209-216
RunComboTool ==
    /\ AtOp("tool")
    /\ child.st = "none"
    /\ LET o == CurrentOp
           cmd == build_command(o.tool, o.target, o.focus)
           made == MakeOutputDirs(cfs, o.tool)
           rec == [tool |-> o.tool,
                   option |-> cmd.option,
                   target |-> cmd.target,
                   is_file |-> FocusIsFile(o.tool, o.focus),
                   input_exists |-> IF IsPath(o.target) THEN cfs[o.target].exists ELSE TRUE,
                   st |-> "running",
                   rc |-> 0]
       IN  \E present \in BOOLEAN :
             IF SpawnRaises(cmd.shell, present)
             THEN /\ steps' = Append(steps, [rec EXCEPT !.st = "raised"])
                  /\ ExceptHandler("FileNotFoundError")
                  /\ cfs' = made
                  /\ UNCHANGED <<child, waited>>
             ELSE /\ steps' = Append(steps, rec)
                  /\ child' = [st |-> "running", present |-> present, rc |-> 0]
                  \* `> outfile` of a shell string creates or truncates the file
                  /\ cfs' = IF cmd.shell
                            THEN [made EXCEPT ![cmd.output_path] = File(<<>>)]
                            ELSE made
                  /\ waited' = 0
                  /\ UNCHANGED <<cpc, summary>>
    /\ UNCHANGED <<choice, cstate, counts, gf_status, slugVars, mergeVars, bugxVars,
                   laterVars, lastVars>>

\* the external tool ends: it may have written its output, and exits
ChildExit ==
    /\ child.st = "running"
    /\ LET o == CurrentOp
           out == OutputName(o.tool)
       IN  IF child.present
           THEN \E rc \in {0, 1}, wrote \in {"nothing", "empty", "lines"} :
                  /\ child' = [child EXCEPT !.st = "exited", !.rc = rc]
                  /\ cfs' = CASE wrote = "lines" -> [cfs EXCEPT ![out] = File(ToolLines(o.tool))]
                              [] wrote = "empty" -> [cfs EXCEPT ![out] = File(<<>>)]
                              [] OTHER -> cfs
           ELSE /\ child' = [child EXCEPT !.st = "exited", !.rc = 127]
                /\ cfs' = cfs
    /\ UNCHANGED <<choice, cstate, cpc, waited, steps, counts, summary, gf_status, slugVars, mergeVars, bugxVars,
                   laterVars, lastVars>>

\* stream_process is blocked in `for line in process.stdout` / process.wait()
\* (tools.py:218-220, no timeout argument) while the child keeps running
Tick ==
    /\ cstate = "running"
    /\ child.st = "running"
    /\ waited < MaxWait
    /\ waited' = waited + 1
    /\ UNCHANGED <<choice, cstate, cpc, cfs, child, steps, counts, summary, gf_status, slugVars, mergeVars, bugxVars,
                   laterVars, lastVars>>

\* end of output, process.wait() returns rc; run_combo_tool prints the status
\* and returns output_path, tools.py:218-220 and 307-310
StreamProcessReturn ==
    /\ cstate = "running"
    /\ child.st = "exited"
    /\ steps' = [steps EXCEPT ![Len(steps)].st = "exited", ![Len(steps)].rc = child.rc]
    /\ child' = NoChild
    /\ waited' = 0
    /\ cpc' = cpc + 1
    /\ UNCHANGED <<choice, cstate, cfs, counts, summary, gf_status, slugVars, mergeVars, bugxVars,
                   laterVars, lastVars>>

\* sub_count / url_count = combine_unique_files([...], combined); an OSError
\* of destination.open("w") or of out_f.write goes to the handler at 444
CombineStep ==
    /\ AtOp("merge")
    /\ \E io \in {"ok", "open fails", "write fails"} :
         LET r == combine_unique_files(cfs, CurrentOp.files, CurrentOp.dest)
         IN  CASE io = "ok" ->
                    /\ cfs' = r.fs
                    /\ counts' = Append(counts, r.ret)
                    /\ cpc' = cpc + 1
                    /\ UNCHANGED summary
               [] io = "open fails" ->
                    /\ cfs' = cfs
                    /\ ExceptHandler("OSError")
                    /\ UNCHANGED counts
               [] io = "write fails" ->
                    /\ cfs' = [cfs EXCEPT ![CurrentOp.dest] = File(<<>>)]
                    /\ ExceptHandler("OSError")
                    /\ UNCHANGED counts
    /\ UNCHANGED <<choice, cstate, child, waited, steps, gf_status, slugVars, mergeVars, bugxVars,
                   laterVars, lastVars>>

\* SIGINT reaches the interpreter while stream_process is blocked on the
\* child: KeyboardInterrupt is no Exception, so it passes the handler at 444
\* and ends the loop of main (tools.py:1413-1417).  Nothing in the program
\* signals the child: it ends only if the SIGINT was sent to it as well.
KeyboardInterrupt ==
    /\ cstate = "running"
    /\ child.st = "running"
    /\ cstate' = "interrupted"
    /\ \E signalled \in BOOLEAN :
         child' = IF signalled THEN [child EXCEPT !.st = "killed"] ELSE child
    /\ UNCHANGED <<choice, cpc, cfs, waited, steps, counts, summary, gf_status, slugVars, mergeVars, bugxVars,
                   laterVars, lastVars>>

\* what `gf <pattern>` may keep of its input
GfKeeps(lines) == {lines, <<>>} \cup (IF Len(lines) >= 1 THEN {SubSeq(lines, 1, 1)} ELSE {})

\* mutant: the fallback leaves an empty destination
copyfile_empty(fs, source, destination) == [fs EXCEPT ![destination] = File(<<>>)]
\* shutil.copyfile(source, destination), tools.py:257 and 262
copyfile(fs, source, destination) == [fs EXCEPT ![destination] = fs[source]]

\* cand_count = run_gf_filter(pattern, source, destination), tools.py:254-263;
\* `> destination` of the shell command creates the file before gf runs
RunGfFilter ==
    /\ AtOp("gf")
    /\ LET src == CurrentOp.target
           dst == CurrentOp.dest
       IN  \E gf_installed \in BOOLEAN, rc \in {0, 1}, kept \in GfKeeps(cfs[src].lines) :
             LET fs1 == IF ~gf_installed \/ rc # 0
                        THEN copyfile(cfs, src, dst)
                        ELSE [cfs EXCEPT ![dst] = File(kept)]
             IN  /\ cfs' = fs1
                 /\ counts' = Append(counts, count_lines(fs1, dst))
                 /\ gf_status' = CASE ~gf_installed -> "absent"
                                   [] rc # 0 -> "failed"
                                   [] OTHER -> "ok"
    /\ cpc' = cpc + 1
    /\ UNCHANGED <<choice, cstate, child, waited, steps, summary, slugVars, mergeVars, bugxVars,
                   laterVars, lastVars>>

\* tools.py:340-347 (and the other branches) and 447-452
PrintSummary ==
    /\ cstate = "running"
    /\ cpc = Len(Workflow(choice)) + 1
    /\ child.st = "none"
    /\ summary' = IF summary # <<>>
                  THEN summary
                  ELSE <<<<"folder", 0>>>>
                        \o [i \in 1..Len(counts) |-> <<"count", counts[i]>>]
                        \o [i \in 1..Len(steps) |-> <<OutputName(steps[i].tool), 0>>]
    /\ cstate' = "printed"
    /\ UNCHANGED <<choice, cpc, cfs, child, waited, steps, counts, gf_status, slugVars, mergeVars, bugxVars,
                   laterVars, lastVars>>

(***************************************************************************)
(* BugxRunner, run.py: modes 6 (subdomain takeover) and 7 (information     *)
(* disclosure, which starts with _run_recon)                               *)
(***************************************************************************)
JoinTimeout == 1

\* the files of one scan in TMP_DIR
TmpPaths ==
    {"subdomains.txt", "active_urls.txt", "subjack.txt", "nuclei_takeover.json",
     "nuclei_exposure.json"}

JsonOne == <<<<"[", "{", "}", "]">>>>

ModeName(m) == IF m = 6 THEN "Subdomain Takeover" ELSE "Information Disclosure"
FirstStep(m) == IF m = 6 THEN "t_subfinder" ELSE "r_subfinder"

ShellCommand(tool, option, input, output, fallback) ==
    [tool |-> tool, option |-> option, input |-> input, output |-> output, fallback |-> fallback]

\* the command string built at each call of _execute_command
CommandAt(label) ==
    CASE label \in {"t_subfinder", "r_subfinder"} ->
            ShellCommand("subfinder", "-d", Literal, "subdomains.txt", "none")
      [] label = "t_subjack" ->
            ShellCommand("subjack", "-w", "subdomains.txt", "subjack.txt", "touch")
      [] label = "t_nuclei" ->
            ShellCommand("nuclei", "-l", "subdomains.txt", "nuclei_takeover.json", "echo")
      [] label = "r_httpx" ->
            ShellCommand("httpx", "-l", "subdomains.txt", "active_urls.txt", "none")
      [] label = "i_nuclei" ->
            ShellCommand("nuclei", "-l", "active_urls.txt", "nuclei_exposure.json", "echo")

\* the statement that follows a returned _execute_command
NextLabel(label) ==
    CASE label = "t_subfinder" -> "t_subjack"
      [] label = "t_subjack" -> "t_nuclei"
      [] label = "t_nuclei" -> "t_collect"
      [] label = "r_subfinder" -> "r_check"
      [] label = "r_httpx" -> "i_nuclei"
      [] label = "i_nuclei" -> "i_collect"

\* `A || B`: sh must stay around to run B, so the tool is a child of the shell
Compound(cmd) == cmd.fallback # "none"

NoShell == [st |-> "none", rc |-> 0]
NoReaders == [stdout |-> "none", stderr |-> "none"]

Footer(tool, status) == [kind |-> "footer", tool |-> tool, status |-> status, entries |-> <<>>]
SummaryBox(m, n) ==
    [kind |-> "summary", tool |-> "", status |-> "",
     entries |-> <<<<"Mode", ModeName(m)>>, <<"Target", Literal>>,
                   <<"Findings", ToString(n)>>, <<"Results", "results.json">>>>]

InitBugx ==
    /\ mode \in {6, 7}
    /\ bstate = "pending"
    /\ bpc = ""
    /\ tmp = [p \in TmpPaths |-> Missing]
    \* the timeout argument (600 or 1800 s in the callers), in clock ticks
    /\ timeout \in 1..MaxTimeout
    /\ ex = "idle"
    /\ elapsed = 0
    /\ deadline = 0
    /\ process = NoShell
    /\ proc = "none"
    /\ readers = NoReaders
    /\ orphans = {}
    /\ leaked = {}
    /\ launches = <<>>
    /\ ret = "none"
    /\ checked = "none"
    /\ findings = 0
    /\ console = <<>>
    /\ OthersIdle("bugx")

\* run_mode up to the call of the mode function, run.py:998-1016
RunMode ==
    /\ bstate = "pending"
    /\ bstate' = "running"
    /\ bpc' = FirstStep(mode)
    /\ UNCHANGED <<mode, tmp, timeout, ex, elapsed, deadline, process, proc, readers, orphans,
                   leaked, launches, ret, checked, findings, console, slugVars, mergeVars, comboVars, laterVars,
                   lastVars>>

\* _execute_command up to process.wait: Popen(shell=True) and the two reader
\* threads, run.py:189-233
ExecuteCommand ==
    /\ bstate = "running"
    /\ bpc \in {"t_subfinder", "t_subjack", "t_nuclei", "r_subfinder", "r_httpx", "i_nuclei"}
    /\ ex = "idle"
    /\ LET cmd == CommandAt(bpc)
       IN  launches' = Append(launches,
                [label |-> bpc,
                 tool |-> cmd.tool,
                 option |-> cmd.option,
                 input |-> cmd.input,
                 input_exists |-> IF cmd.input \in TmpPaths THEN tmp[cmd.input].exists ELSE TRUE,
                 running_before |-> orphans])
    /\ process' = [st |-> "running", rc |-> 0]
    /\ proc' = "running"
    /\ readers' = [stdout |-> "running", stderr |-> "running"]
    /\ ex' = "wait"
    /\ elapsed' = 0
    /\ UNCHANGED <<mode, bstate, bpc, tmp, timeout, deadline, orphans, leaked, ret, checked,
                   findings, console, slugVars, mergeVars, comboVars, laterVars, lastVars>>

\* what the tool of a command writes when it writes something
ToolWrites(cmd) == IF cmd.tool = "nuclei" THEN JsonOne ELSE <<<<"a">>, <<"b">>>>

\* the file system after `|| touch file` / `|| echo '[]' > file`
AfterFallback(fs, cmd, rc) ==
    CASE rc # 0 /\ cmd.fallback = "touch" ->
            IF fs[cmd.output].exists THEN fs ELSE [fs EXCEPT ![cmd.output] = File(<<>>)]
      [] rc # 0 /\ cmd.fallback = "echo" -> [fs EXCEPT ![cmd.output] = File(<<<<"[", "]">>>>)]
      [] OTHER -> fs

\* the tool ends (127: sh did not find it), sh runs the fallback and exits
ToolEnds ==
    /\ process.st = "running"
    /\ proc = "running"
    /\ LET cmd == CommandAt(bpc)
       IN  \E rc \in {0, 1, 127}, wrote \in {"nothing", "empty", "lines"} :
             /\ rc = 127 => wrote = "nothing"
             /\ LET fs1 == CASE wrote = "lines" -> [tmp EXCEPT ![cmd.output] = File(ToolWrites(cmd))]
                             [] wrote = "empty" -> [tmp EXCEPT ![cmd.output] = File(<<>>)]
                             [] OTHER -> tmp
                IN  tmp' = AfterFallback(fs1, cmd, rc)
             /\ process' = [st |-> "exited", rc |-> IF Compound(cmd) THEN 0 ELSE rc]
    /\ proc' = "ended"
    /\ UNCHANGED <<mode, bstate, bpc, timeout, ex, elapsed, deadline, readers, orphans, leaked,
                   launches, ret, checked, findings, console, slugVars, mergeVars, comboVars, laterVars,
                   lastVars>>

\* mutant: process.wait() is called without its timeout
WaitNeverExpires(e, t) == FALSE
\* process.wait(timeout=timeout) gives up, run.py:234
WaitExpired(e, t) == e >= t

\* a second passes while the runner is blocked in wait or join
ClockTick ==
    /\ \/ ex = "wait" /\ process.st = "running" /\ ~WaitExpired(elapsed, timeout)
       \/ ex = "join_stdout" /\ readers.stdout = "running" /\ elapsed < deadline
       \/ ex = "join_stderr" /\ readers.stderr = "running" /\ elapsed < deadline
    /\ elapsed < (MaxTimeout + 2 * JoinTimeout + 1)
    /\ elapsed' = elapsed + 1
    /\ UNCHANGED <<mode, bstate, bpc, tmp, timeout, ex, deadline, process, proc, readers, orphans,
                   leaked, launches, ret, checked, findings, console, slugVars, mergeVars, comboVars, laterVars,
                   lastVars>>

\* process.wait returns because the child has exited, run.py:234-235
WaitReturns ==
    /\ ex = "wait"
    /\ process.st = "exited"
    /\ ex' = "join_stdout"
    /\ deadline' = elapsed + JoinTimeout
    /\ UNCHANGED <<mode, bstate, bpc, tmp, timeout, elapsed, process, proc, readers, orphans,
                   leaked, launches, ret, checked, findings, console, slugVars, mergeVars, comboVars, laterVars,
                   lastVars>>

\* except subprocess.TimeoutExpired: footer, log, process.kill(), process.wait(),
\* return False, run.py:245-252.  kill() signals the sh process only: a tool
\* that sh forked keeps running; for a simple command sh may have exec'ed the
\* tool, and then the signal reaches the tool itself.
TimeoutExpired ==
    /\ ex = "wait"
    /\ process.st = "running"
    /\ WaitExpired(elapsed, timeout)
    /\ LET cmd == CommandAt(bpc)
       IN  \E survives \in (IF Compound(cmd) THEN {TRUE} ELSE BOOLEAN) :
             /\ orphans' = IF survives THEN orphans \cup {bpc} ELSE orphans
             /\ proc' = IF survives THEN "orphan" ELSE "ended"
             /\ console' = Append(console, Footer(cmd.tool, "error"))
    /\ process' = [st |-> "reaped", rc |-> 9]
    /\ leaked' = leaked \cup {bpc}
    /\ readers' = NoReaders
    /\ ret' = "False"
    /\ ex' = "idle"
    /\ elapsed' = 0
    /\ bpc' = NextLabel(bpc)
    /\ UNCHANGED <<mode, bstate, tmp, timeout, deadline, launches, checked, findings,
                   slugVars, mergeVars, comboVars, laterVars, lastVars>>

\* read_stream reaches end of file once sh and the tool have closed the pipe
ReaderFinishes ==
    /\ ex # "idle"
    /\ process.st = "exited"
    /\ proc = "ended"
    /\ \E r \in {"stdout", "stderr"} :
         /\ readers[r] = "running"
         /\ readers' = [readers EXCEPT ![r] = "done"]
    /\ UNCHANGED <<mode, bstate, bpc, tmp, timeout, ex, elapsed, deadline, process, proc, orphans,
                   leaked, launches, ret, checked, findings, console, slugVars, mergeVars, comboVars, laterVars,
                   lastVars>>

\* stdout_thread.join(timeout=1) returns, run.py:235
JoinStdout ==
    /\ ex = "join_stdout"
    /\ readers.stdout = "done" \/ elapsed >= deadline
    /\ ex' = "join_stderr"
    /\ deadline' = elapsed + JoinTimeout
    /\ UNCHANGED <<mode, bstate, bpc, tmp, timeout, elapsed, process, proc, readers, orphans,
                   leaked, launches, ret, checked, findings, console, slugVars, mergeVars, comboVars, laterVars,
                   lastVars>>

\* stderr_thread.join(timeout=1) returns; footer and return value, run.py:236-244
JoinStderr ==
    /\ ex = "join_stderr"
    /\ readers.stderr = "done" \/ elapsed >= deadline
    /\ ret' = IF process.rc = 0 THEN "True" ELSE "False"
    /\ console' = Append(console, Footer(CommandAt(bpc).tool, IF process.rc = 0 THEN "success" ELSE "error"))
    /\ leaked' = IF readers.stdout = "running" \/ readers.stderr = "running"
                 THEN leaked \cup {bpc}
                 ELSE leaked
    /\ readers' = NoReaders
    /\ ex' = "idle"
    /\ elapsed' = 0
    /\ bpc' = NextLabel(bpc)
    /\ UNCHANGED <<mode, bstate, tmp, timeout, deadline, process, proc, orphans, launches,
                   checked, findings, slugVars, mergeVars, comboVars, laterVars, lastVars>>

\* a tool left behind by a timed-out step ends, possibly writing its output
OrphanEnds ==
    /\ \E l \in orphans :
         /\ orphans' = orphans \ {l}
         /\ \E wrote \in BOOLEAN :
              tmp' = IF wrote
                     THEN [tmp EXCEPT ![CommandAt(l).output] = File(ToolWrites(CommandAt(l)))]
                     ELSE tmp
    /\ UNCHANGED <<mode, bstate, bpc, timeout, ex, elapsed, deadline, process, proc, readers,
                   leaked, launches, ret, checked, findings, console, slugVars, mergeVars, comboVars, laterVars,
                   lastVars>>

\* reader threads that were not joined end once their pipe is closed
LeakedReadersFinish ==
    /\ \E l \in leaked \ orphans : leaked' = leaked \ {l}
    /\ UNCHANGED <<mode, bstate, bpc, tmp, timeout, ex, elapsed, deadline, process, proc, readers,
                   orphans, launches, ret, checked, findings, console, slugVars, mergeVars, comboVars, laterVars,
                   lastVars>>

\* mutant: the literal target is always used
ReconFallsBackAlways(f) == TRUE
\* not os.path.exists(subdomains_file) or os.path.getsize(subdomains_file) == 0
ReconFallsBack(f) == ~f.exists \/ Len(f.lines) = 0

\* _run_recon after subfinder, run.py:633-639
ReconCheck ==
    /\ bstate = "running"
    /\ bpc = "r_check"
    /\ checked' = IF tmp["subdomains.txt"].exists /\ tmp["subdomains.txt"].lines # <<>>
                  THEN "nonempty"
                  ELSE "empty"
    /\ IF ReconFallsBack(tmp["subdomains.txt"])
       THEN /\ tmp' = [tmp EXCEPT !["active_urls.txt"] = File(<<<<"h", "t", "t", "p">>, <<"h", "t", "t", "p", "s">>>>)]
            /\ bpc' = "i_nuclei"
       ELSE /\ tmp' = tmp
            /\ bpc' = "r_httpx"
    /\ UNCHANGED <<mode, bstate, timeout, ex, elapsed, deadline, process, proc, readers, orphans,
                   leaked, launches, ret, findings, console, slugVars, mergeVars, comboVars, laterVars,
                   lastVars>>

\* number of findings read from a nuclei JSON export
JsonCount(f) == IF f.exists /\ f.lines = JsonOne THEN 1 ELSE 0

\* the result files are read into findings, run.py:887-902 and 916-926
Collect ==
    /\ bstate = "running"
    /\ bpc \in {"t_collect", "i_collect"}
    /\ findings' = IF bpc = "t_collect"
                   THEN count_lines(tmp, "subjack.txt") + JsonCount(tmp["nuclei_takeover.json"])
                   ELSE JsonCount(tmp["nuclei_exposure.json"])
    /\ bpc' = "finish"
    /\ UNCHANGED <<mode, bstate, tmp, timeout, ex, elapsed, deadline, process, proc, readers,
                   orphans, leaked, launches, ret, checked, console, slugVars, mergeVars, comboVars, laterVars,
                   lastVars>>

\* _save_results, _cleanup_tmp, _display_summary, run.py:1017-1020
FinishMode ==
    /\ bstate = "running"
    /\ bpc = "finish"
    /\ tmp' = [p \in TmpPaths |-> Missing]
    /\ console' = Append(console, SummaryBox(mode, findings))
    /\ bstate' = "done"
    /\ UNCHANGED <<mode, bpc, timeout, ex, elapsed, deadline, process, proc, readers, orphans,
                   leaked, launches, ret, checked, findings, slugVars, mergeVars, comboVars, laterVars,
                   lastVars>>

(***************************************************************************)
(* choose_flags, expand_flags and the command lines of build_command,      *)
(* tools.py:973-1015, 192-202, 1018-1271.  A flag entry is the sequence of *)
(* words shlex.split makes of it; a command line is a sequence of words.   *)
(***************************************************************************)

\* TOOL_CONFIGS[tool].default_flags
DefaultFlags(tool) ==
    CASE tool = "subfinder" -> <<<<"-all">>, <<"-recursive">>, <<"-silent">>>>
      [] tool = "assetfinder" -> <<<<"--subs-only">>>>
      [] tool = "gau" -> <<<<"--subs">>>>
      [] tool = "httpx" -> <<<<"-title">>, <<"-sc">>, <<"-cl">>, <<"-td">>, <<"-ip">>,
                             <<"-cname">>, <<"-silent">>>>
      [] tool = "eyewitness" -> <<<<"--web">>>>
      [] tool = "xpoc" -> <<>>

RECURSIVE expand_flags(_)
expand_flags(fl) ==
    IF fl = <<>> THEN <<>> ELSE Head(fl) \o expand_flags(Tail(fl))

\* the command build_command returns, as the words the tool is started with
\* (for the shell strings: the words sh makes of the string)
CommandLine(tool, is_file, fl) ==
    LET flags_expanded == expand_flags(fl)
    IN  CASE tool = "subfinder" ->
                <<"subfinder", "-d", "<target>">> \o flags_expanded \o <<"-o", "<output>">>
          [] tool = "assetfinder" ->
                <<"assetfinder", "--subs-only">> \o flags_expanded \o <<"<target>", ">", "<output>">>
          [] tool = "gau" ->
                <<"gau">> \o flags_expanded \o <<"<target>", ">", "<output>">>
          [] tool = "httpx" ->
                <<"httpx", IF is_file THEN "-l" ELSE "-u", "<target>">>
                    \o flags_expanded \o <<"-o", "<output>">>
          [] tool = "eyewitness" ->
                <<"eyewitness", "--web", "--threads", "20", "--prepend-https",
                  IF is_file THEN "-f" ELSE "-u", "<target>">>
                    \o flags_expanded \o <<"-d", "<output>">>
          [] tool = "xpoc" ->
                <<"xpoc", "scan", "--url", "<target>", "-o", "<output>">> \o flags_expanded

InitFlags ==
    /\ ftool \in {"subfinder", "assetfinder", "gau", "httpx", "eyewitness", "xpoc"}
    /\ fis_file \in (IF ftool \in {"httpx", "eyewitness"} THEN BOOLEAN ELSE {FALSE})
    /\ selected \in UNION {[1..n -> {<<"-silent">>, <<"-v">>, <<"-t", "50">>}] : n \in 0..MaxFlags}
    /\ flags = <<>>
    /\ command = <<>>
    /\ fpc = "choose"
    /\ OthersIdle("flag")

\* choose_flags: `return chosen_flags or config.default_flags[:]`
ChooseFlags ==
    /\ fpc = "choose"
    /\ flags' = IF selected = <<>> THEN DefaultFlags(ftool) ELSE selected
    /\ fpc' = "build"
    /\ UNCHANGED <<ftool, fis_file, selected, command, slugVars, mergeVars, comboVars, bugxVars,
                   listVars, urlVars, scratchVars, dirVars, lastVars>>

\* command, output_path, shell = build_command(tool, target, focus, flags, ...)
BuildCommand ==
    /\ fpc = "build"
    /\ command' = CommandLine(ftool, fis_file, flags)
    /\ fpc' = "done"
    /\ UNCHANGED <<ftool, fis_file, selected, flags, slugVars, mergeVars, comboVars, bugxVars,
                   listVars, urlVars, scratchVars, dirVars, lastVars>>

(***************************************************************************)
(* run_combo_mode: how the targets of a workflow are obtained,             *)
(* tools.py:1363-1388, with prompt_target (960-970) and the validators     *)
(***************************************************************************)
\* validate_list_file: exists, is a file and has a size above zero
validate_list_file(f) == f.exists /\ Len(f.lines) > 0

\* the loop over the lines of the list file, tools.py:1371-1379
ReadTargets(lines) == ScanLines(lines, [seen |-> {}, out |-> <<>>]).out

TargetLines == {<<"a", ".", "1">>, <<"a", ".", "1", " ">>, <<"a">>, <<"a", "/", ".">>, <<" ">>}

InitList ==
    /\ target_mode \in {"1", "2"}
    /\ typed = <<>>
    /\ listfile \in (IF target_mode = "2" THEN {Missing} \cup {File(l) : l \in UNION {[1..n -> TargetLines] : n \in 0..MaxFileLines}} ELSE {Missing})
    /\ targets = <<>>
    /\ executed = <<>>
    /\ lpc = "prompt"
    /\ OthersIdle("list")

\* targets.append(prompt_target(language, domain_focus)): one round of the
\* loop of prompt_target with the validator validate_domain
PromptDomain ==
    /\ lpc = "prompt"
    /\ target_mode = "1"
    /\ \E v \in TargetLines :
         /\ typed' = v
         /\ IF validate_domain(strip(v))
            THEN /\ targets' = <<strip(v)>>
                 /\ lpc' = "loop"
            ELSE UNCHANGED <<targets, lpc>>
    /\ UNCHANGED <<target_mode, listfile, executed, slugVars, mergeVars, comboVars, bugxVars,
                   flagVars, urlVars, scratchVars, dirVars, lastVars>>

\* file_path = prompt_target(language, file_focus) and the reading of the
\* file; a path that fails validate_list_file is asked for again
PromptListFile ==
    /\ lpc = "prompt"
    /\ target_mode = "2"
    /\ validate_list_file(listfile)
    /\ targets' = ReadTargets(listfile.lines)
    /\ lpc' = IF targets' = <<>> THEN "returned" ELSE "loop"
    /\ UNCHANGED <<target_mode, typed, listfile, executed, slugVars, mergeVars, comboVars,
                   bugxVars, flagVars, urlVars, scratchVars, dirVars, lastVars>>

\* for domain in targets: execute_combo_workflow(choice, label, domain, language)
ExecuteComboWorkflow ==
    /\ lpc = "loop"
    /\ Len(executed) < Len(targets)
    /\ executed' = Append(executed, targets[Len(executed) + 1])
    /\ UNCHANGED <<target_mode, typed, listfile, targets, lpc, slugVars, mergeVars, comboVars,
                   bugxVars, flagVars, urlVars, scratchVars, dirVars, lastVars>>

\* the loop is over, run_combo_mode goes on to its closing prompt
LoopEnds ==
    /\ lpc = "loop"
    /\ Len(executed) = Len(targets)
    /\ lpc' = "returned"
    /\ UNCHANGED <<target_mode, typed, listfile, targets, executed, slugVars, mergeVars,
                   comboVars, bugxVars, flagVars, urlVars, scratchVars, dirVars, lastVars>>

(***************************************************************************)
(* BugxRunner._run_url_collection and the gf step of _run_xss_mode,        *)
(* run.py:643-670.  _execute_command is taken as one step here: it always  *)
(* returns, and its return value is not looked at by the callers.          *)
(***************************************************************************)

\* the output of `sort -u`
SortUnique(S) ==
    CHOOSE q \in [1..Cardinality(S) -> S] : \A i \in 1..Len(q), j \in 1..Len(q) : i < j => q[i] < q[j]

LinesOf(f) == IF f.exists THEN {f.lines[i] : i \in 1..Len(f.lines)} ELSE {}

\* the file system after a tool that was to write `output`
AfterTool(fs, output, wrote, lines) ==
    CASE wrote = "nothing" -> fs
      [] wrote = "empty" -> [fs EXCEPT ![output] = File(<<>>)]
      [] OTHER -> [fs EXCEPT ![output] = File(lines)]

InitUrl ==
    /\ upc = "katana"
    /\ ufs = [p \in {"katana.txt", "gau.txt", "all_urls.txt", "gf_xss.txt"} |-> Missing]
    /\ merged = ""
    /\ ulaunches = <<>>
    /\ OthersIdle("url")

\* self._execute_command("katana", ...), run.py:649-650
RunKatana ==
    /\ upc = "katana"
    /\ \E rc \in {0, 1}, wrote \in {"nothing", "empty", "lines"}, lines \in {<<2, 1>>, <<1>>} :
         /\ ufs' = AfterTool(ufs, "katana.txt", wrote, lines)
         /\ ulaunches' = Append(ulaunches, [tool |-> "katana", input |-> "", rc |-> rc, merged |-> merged])
    /\ upc' = "gau"
    /\ UNCHANGED <<merged, slugVars, mergeVars, comboVars, bugxVars, flagVars, listVars, scratchVars, dirVars,
                   lastVars>>

\* `cat ... | gau --o gau_file 2>/dev/null || touch gau_file`, run.py:652-653
RunGau ==
    /\ upc = "gau"
    /\ \E rc \in {0, 1}, wrote \in {"nothing", "empty", "lines"}, lines \in {<<2, 1>>, <<1>>} :
         LET fs1 == AfterTool(ufs, "gau.txt", wrote, lines)
         IN  /\ ufs' = IF rc # 0 /\ ~fs1["gau.txt"].exists
                       THEN [fs1 EXCEPT !["gau.txt"] = File(<<>>)]
                       ELSE fs1
             /\ ulaunches' = Append(ulaunches, [tool |-> "gau", input |-> "", rc |-> 0, merged |-> merged])
    /\ upc' = "merge"
    /\ UNCHANGED <<merged, slugVars, mergeVars, comboVars, bugxVars, flagVars, listVars, scratchVars, dirVars,
                   lastVars>>

\* subprocess.run("cat katana gau 2>/dev/null | sort -u > all_urls", shell=True),
\* run.py:655-658; the CompletedProcess is dropped
MergeUrls ==
    /\ upc = "merge"
    /\ \E io \in {"ok", "cannot create", "write fails"} :
         /\ ufs' = CASE io = "ok" ->
                         [ufs EXCEPT !["all_urls.txt"] =
                             File(SortUnique(LinesOf(ufs["katana.txt"]) \cup LinesOf(ufs["gau.txt"])))]
                     [] io = "cannot create" -> ufs
                     [] io = "write fails" -> [ufs EXCEPT !["all_urls.txt"] = File(<<>>)]
         /\ merged' = IF io = "ok" THEN "ok" ELSE "failed"
    /\ upc' = "gf"
    /\ UNCHANGED <<ulaunches, slugVars, mergeVars, comboVars, bugxVars, flagVars, listVars, scratchVars, dirVars,
                   lastVars>>

\* `cat all_urls | gf xss > gf_xss 2>/dev/null || touch gf_xss`, run.py:668-670
RunGf ==
    /\ upc = "gf"
    /\ ulaunches' = Append(ulaunches, [tool |-> "gf", input |-> "all_urls.txt", rc |-> 0, merged |-> merged])
    /\ \E kept \in SUBSET LinesOf(ufs["all_urls.txt"]) :
         ufs' = [ufs EXCEPT !["gf_xss.txt"] = File(SortUnique(kept))]
    /\ upc' = "done"
    /\ UNCHANGED <<merged, slugVars, mergeVars, comboVars, bugxVars, flagVars, listVars, scratchVars, dirVars,
                   lastVars>>

(***************************************************************************)
(* Two scans of run.py running at once: both use TMP_DIR = ~/BUGx/tmp      *)
(* (run.py:18), the sqlmap output directory TMP_DIR/sqlmap (run.py:735)    *)
(* and _cleanup_tmp (run.py:298-311).  Each scan follows the SQLi mode.    *)
(***************************************************************************)
Runs == {1, 2}

\* os.path.join(TMP_DIR, f"{target_clean}_subdomains.txt")
SubdomainsOf(t) == IF t = "a" THEN "a_subdomains.txt" ELSE "b_subdomains.txt"
ScratchItems == {SubdomainsOf(t) : t \in {"a", "b"}} \cup {"sqlmap"}

\* item p was written last by another scan that has not finished
Foreign(r, p) == sfs[p] \notin {0, r} /\ spc[sfs[p]] # "done"

Access(r, op, p) == [by |-> r, op |-> op, item |-> p, of |-> sfs[p]]

InitScratch ==
    /\ stargets \in [Runs -> {"a", "b"}]
    /\ spc = [r \in Runs |-> "recon"]
    /\ sfs = [p \in ScratchItems |-> 0]
    /\ touched = {}
    /\ OthersIdle("scratch")

\* subfinder -o subdomains_file, run.py:630-631
ReconWrites(r) ==
    /\ spc[r] = "recon"
    /\ LET p == SubdomainsOf(stargets[r])
       IN  /\ touched' = IF Foreign(r, p) THEN touched \cup {Access(r, "overwrite", p)} ELSE touched
           /\ sfs' = [sfs EXCEPT ![p] = r]
    /\ spc' = [spc EXCEPT ![r] = "check"]
    /\ UNCHANGED <<stargets, slugVars, mergeVars, comboVars, bugxVars, flagVars, listVars, urlVars, dirVars,
                   lastVars>>

\* os.path.exists / os.path.getsize of subdomains_file and httpx -l, run.py:633-639
ReconReads(r) ==
    /\ spc[r] = "check"
    /\ LET p == SubdomainsOf(stargets[r])
       IN  touched' = IF Foreign(r, p) THEN touched \cup {Access(r, "read", p)} ELSE touched
    /\ spc' = [spc EXCEPT ![r] = "sqlmap"]
    /\ UNCHANGED <<stargets, sfs, slugVars, mergeVars, comboVars, bugxVars, flagVars, listVars, urlVars, dirVars,
                   lastVars>>

\* sqlmap ... --output-dir {TMP_DIR}/sqlmap, run.py:735-736
SqlmapWrites(r) ==
    /\ spc[r] = "sqlmap"
    /\ touched' = IF Foreign(r, "sqlmap")
                  THEN touched \cup {Access(r, "overwrite", "sqlmap")}
                  ELSE touched
    /\ sfs' = [sfs EXCEPT !["sqlmap"] = r]
    /\ spc' = [spc EXCEPT ![r] = "walk"]
    /\ UNCHANGED <<stargets, slugVars, mergeVars, comboVars, bugxVars, flagVars, listVars, urlVars, dirVars,
                   lastVars>>

\* os.walk(sqlmap_dir), run.py:752-759
SqlmapWalk(r) ==
    /\ spc[r] = "walk"
    /\ touched' = IF Foreign(r, "sqlmap")
                  THEN touched \cup {Access(r, "read", "sqlmap")}
                  ELSE touched
    /\ spc' = [spc EXCEPT ![r] = "cleanup"]
    /\ UNCHANGED <<stargets, sfs, slugVars, mergeVars, comboVars, bugxVars, flagVars, listVars, urlVars, dirVars,
                   lastVars>>

\* _cleanup_tmp: every item listed in TMP_DIR is removed, run.py:298-311
CleanupTmp(r) ==
    /\ spc[r] = "cleanup"
    /\ touched' = touched \cup {Access(r, "delete", p) : p \in {q \in ScratchItems : Foreign(r, q)}}
    /\ sfs' = [p \in ScratchItems |-> 0]
    /\ spc' = [spc EXCEPT ![r] = "done"]
    /\ UNCHANGED <<stargets, slugVars, mergeVars, comboVars, bugxVars, flagVars, listVars, urlVars, dirVars,
                   lastVars>>

(***************************************************************************)
(* The output directory and the artifact path of build_command,            *)
(* tools.py:1030-1033 and the `outfile` / `out_dir` of every branch, as    *)
(* called by run_single_tool (1294) and by run_combo_tool (293-301).       *)
(***************************************************************************)
Calls == {1, 2}

\* the keys of TOOL_CONFIGS
RegisteredTools ==
    {"subfinder", "assetfinder", "amass", "gau", "waybackurls", "httpx", "naabu", "dnsx",
     "nuclei", "ffuf", "feroxbuster", "gobuster", "gospider", "httprobe", "sqlmap", "masscan",
     "nmap", "whatweb", "wpscan", "eyewitness", "subjack", "sublister", "shuffledns", "dalfox",
     "gowitness", "XSpear", "xpoc", "paramspider"}

\* the tools with a focus option that has is_file=True, and those with one
\* that has not
HasFileFocus(tool) ==
    tool \in {"httpx", "naabu", "dnsx", "nuclei", "httprobe", "sqlmap", "nmap", "eyewitness",
              "subjack", "shuffledns", "dalfox", "gowitness", "XSpear"}
HasTargetFocus(tool) ==
    tool \in RegisteredTools \ {"dnsx", "nuclei", "httprobe", "subjack", "shuffledns"}

\* the value handed to build_command as `target`
TargetValue(c) == IF c.is_file THEN <<"/", "a">> ELSE c.domain

\* slug_name = slug_override or slugify_target(target); run_combo_tool passes
\* the slug of the workflow's target, run_single_tool passes none
SlugName(c) ==
    IF c.mode = "combo" THEN slugify_target(c.domain) ELSE slugify_target(TargetValue(c))

\* a directory output_root / slug_name [/ sub]; in a combo run output_root is
\* COMBO_DIR / slug, in a single run it is SINGLES_DIR
Dir(root, under, slug_name, sub) == [root |-> root, under |-> under, slug |-> slug_name, sub |-> sub]

\* output_dir = output_root / slug_name
OutputDir(c) ==
    IF c.mode = "combo"
    THEN Dir("Kombinasitools", slugify_target(c.domain), SlugName(c), "")
    ELSE Dir("singletarget", <<>>, SlugName(c), "")

\* mutant: the artifact of httpx is named after the focus mode
ArtifactByFocus(tool, is_file) ==
    CASE tool = "httpx" -> [stem |-> IF is_file THEN "httpx_list" ELSE "httpx", ext |-> "txt"]
      [] OTHER -> [stem |-> tool, ext |-> "out"]
\* the name of the returned path inside output_dir: <stem>.<ext>, or the
\* directory <stem> when ext is empty
Artifact(tool, is_file) ==
    CASE tool = "subfinder" -> [stem |-> "subfinder", ext |-> "txt"]
      [] tool = "assetfinder" -> [stem |-> "assetfinder", ext |-> "txt"]
      [] tool = "amass" -> [stem |-> "amass", ext |-> "txt"]
      [] tool = "gau" -> [stem |-> "gau", ext |-> "txt"]
      [] tool = "waybackurls" -> [stem |-> "waybackurls", ext |-> "txt"]
      [] tool = "httpx" -> [stem |-> "httpx", ext |-> "txt"]
      [] tool = "naabu" -> [stem |-> "naabu", ext |-> "txt"]
      [] tool = "dnsx" -> [stem |-> "dnsx", ext |-> "txt"]
      [] tool = "nuclei" -> [stem |-> "nuclei", ext |-> "json"]
      [] tool = "ffuf" -> [stem |-> "ffuf", ext |-> "json"]
      [] tool = "feroxbuster" -> [stem |-> "feroxbuster", ext |-> "txt"]
      [] tool = "gobuster" -> [stem |-> "gobuster", ext |-> "txt"]
      [] tool = "gospider" -> [stem |-> "gospider", ext |-> ""]
      [] tool = "httprobe" -> [stem |-> "httprobe", ext |-> "txt"]
      [] tool = "sqlmap" -> [stem |-> "sqlmap", ext |-> ""]
      [] tool = "masscan" -> [stem |-> "masscan", ext |-> "txt"]
      [] tool = "nmap" -> [stem |-> "nmap", ext |-> "nmap"]
      [] tool = "whatweb" -> [stem |-> "whatweb", ext |-> "json"]
      [] tool = "wpscan" -> [stem |-> "wpscan", ext |-> "txt"]
      [] tool = "eyewitness" -> [stem |-> "eyewitness", ext |-> ""]
      [] tool = "subjack" -> [stem |-> "subjack", ext |-> "txt"]
      [] tool = "sublister" -> [stem |-> "sublister", ext |-> "txt"]
      [] tool = "shuffledns" -> [stem |-> "shuffledns", ext |-> "txt"]
      [] tool = "dalfox" -> [stem |-> "dalfox", ext |-> "txt"]
      [] tool = "gowitness" -> [stem |-> "gowitness", ext |-> ""]
      [] tool = "XSpear" -> [stem |-> "XSpear", ext |-> "txt"]
      [] tool = "xpoc" -> [stem |-> "xpoc", ext |-> "json"]
      [] tool = "paramspider" -> [stem |-> "paramspider", ext |-> "txt"]
      [] OTHER -> [stem |-> tool, ext |-> "out"]

\* mutant: output_dir.mkdir is left out
mkdir_skipped(d) == {}
\* Path.mkdir(parents=True, exist_ok=True)
mkdir(d) == {d}

\* the directories build_command makes: output_dir, and out_dir / temp_dir
\* for the tools whose artifact is a directory
MadeDirs(c) ==
    mkdir(OutputDir(c))
        \cup (IF Artifact(c.tool, c.is_file).ext = ""
              THEN mkdir([OutputDir(c) EXCEPT !.sub = Artifact(c.tool, c.is_file).stem])
              ELSE {})

\* mutant: a tool that is not registered gets a default configuration
RegisteredAlways(tool) == TRUE
\* TOOL_CONFIGS.get(tool) is truthy / TOOL_CONFIGS[tool] does not raise
Registered(tool) == tool \in registry

InitDirs ==
    /\ calls \in [Calls -> {c \in [mode : {"single", "combo"},
                                   tool : RegisteredTools \cup {"unregistered"},
                                   domain : {<<"a", ".", "1">>, <<"a", ".", "a">>, <<"1", ".", "a">>},
                                   is_file : BOOLEAN,
                                   custom_flags : BOOLEAN] :
                               /\ c.is_file => HasFileFocus(c.tool)
                               /\ (~c.is_file /\ c.tool \in RegisteredTools) => HasTargetFocus(c.tool)
                               \* a single run on a list file has no other target
                               /\ (c.is_file /\ c.mode = "single") => c.domain = <<"a", ".", "1">>}]
    \* the order of the two calls does not matter: the first is one with the
    \* default flags and one of two targets
    /\ ~calls[1].custom_flags
    /\ calls[1].domain # <<"a", ".", "a">>
    /\ results = [k \in Calls |-> [returned |-> FALSE, raised |-> "", spawned |-> FALSE,
                                   dir |-> Dir("", <<>>, <<>>, ""), stem |-> "", ext |-> "",
                                   command |-> "", shell |-> FALSE]]
    /\ dirs = {}
    /\ registry = RegisteredTools
    /\ OthersIdle("dir")

\* the lookup of an identifier that is not a key of TOOL_CONFIGS: `raise
\* ValueError` in run_combo_tool (tools.py:287-289), KeyError of
\* TOOL_CONFIGS[tool] in build_command (tools.py:1030)
LookupRaises(k) ==
    /\ ~results[k].returned
    /\ results[k].raised = ""
    /\ ~Registered(calls[k].tool)
    /\ results' = [results EXCEPT ![k].raised =
                       IF calls[k].mode = "combo" THEN "ValueError" ELSE "KeyError"]
    /\ UNCHANGED <<calls, dirs, registry, slugVars, mergeVars, comboVars, bugxVars, flagVars,
                   listVars, urlVars, scratchVars, lastVars>>

\* command, output_path, shell = build_command(...), tools.py:1018-1271
BuildCommandReturns(k) ==
    /\ ~results[k].returned
    /\ results[k].raised = ""
    /\ Registered(calls[k].tool)
    /\ dirs' = dirs \cup MadeDirs(calls[k])
    /\ results' = [results EXCEPT ![k] =
                       [returned |-> TRUE,
                        raised |-> "",
                        spawned |-> FALSE,
                        dir |-> OutputDir(calls[k]),
                        stem |-> Artifact(calls[k].tool, calls[k].is_file).stem,
                        ext |-> Artifact(calls[k].tool, calls[k].is_file).ext,
                        command |-> IF CommandIsString(calls[k].tool) THEN "str" ELSE "list",
                        shell |-> ShellForm(calls[k].tool)]]
    /\ UNCHANGED <<calls, registry, slugVars, mergeVars, comboVars, bugxVars, flagVars, listVars,
                   urlVars, scratchVars, lastVars>>

\* stream_process(command, Path.cwd(), shell=shell) after build_command has
\* returned, tools.py:306 and 1303-1306: subprocess.Popen starts the child
StreamProcess(k) ==
    /\ results[k].returned
    /\ ~results[k].spawned
    /\ results' = [results EXCEPT ![k].spawned = TRUE]
    /\ UNCHANGED <<calls, dirs, registry, slugVars, mergeVars, comboVars, bugxVars, flagVars,
                   listVars, urlVars, scratchVars, lastVars>>

(***************************************************************************)
(* The speed prompt of BugxRunner.interactive_mode, run.py:1156-1173       *)
(***************************************************************************)
\* str.isdigit(): not empty and every character a digit; "sup2" stands for
\* U+00B2, a digit for isdigit that is no decimal digit
isdigit(s) == s # <<>> /\ \A i \in 1..Len(s) : s[i] \in {"0", "5", "sup2"}

\* int(s) for a string that passed isdigit: the value of a decimal string,
\* ValueError for any other
RECURSIVE int(_)
int(s) ==
    CASE s = <<>> -> [raised |-> FALSE, value |-> 0]
      [] s[Len(s)] \notin {"0", "5"} -> [raised |-> TRUE, value |-> 0]
      [] OTHER ->
            LET rest == int(SubSeq(s, 1, Len(s) - 1))
            IN  [raised |-> rest.raised,
                 value |-> 10 * rest.value + (IF s[Len(s)] = "5" THEN 5 ELSE 0)]

InitSpeed ==
    /\ typed_speed \in UNION {[1..n -> {"0", "5", "-", ".", "a", "sup2", " "}] : n \in 0..MaxSpeedLen}
    /\ speed = [raised |-> FALSE, value |-> 0]
    /\ speed_cmds = <<>>
    /\ speed_pc = "prompt"
    /\ OthersIdle("speed")

\* speed = input(...).strip(); speed = int(speed) if speed.isdigit() else 50;
\* a ValueError of int() is not handled in interactive_mode
ReadSpeed ==
    /\ speed_pc = "prompt"
    /\ LET stripped == strip(typed_speed)
           parsed == IF isdigit(stripped) THEN int(stripped) ELSE [raised |-> FALSE, value |-> 50]
       IN  /\ speed' = parsed
           /\ speed_pc' = IF parsed.raised THEN "ValueError" ELSE "run"
    /\ UNCHANGED <<typed_speed, speed_cmds, setupVars, venvVars, slugVars, mergeVars, comboVars,
                   bugxVars, laterVars>>

\* run_mode(mode_num, target, speed): the commands of mode 6 (run.py:883-885)
\* and of mode 7 (run.py:638, 914) that carry the speed
RunModeWithSpeed ==
    /\ speed_pc = "run"
    /\ \E mode_num \in {6, 7} :
         speed_cmds' = IF mode_num = 6
                       THEN <<[tool |-> "subjack", option |-> "-t", value |-> speed.value],
                              [tool |-> "nuclei", option |-> "-c", value |-> speed.value]>>
                       ELSE <<[tool |-> "httpx", option |-> "-t", value |-> speed.value],
                              [tool |-> "nuclei", option |-> "-c", value |-> speed.value]>>
    /\ speed_pc' = "done"
    /\ UNCHANGED <<typed_speed, speed, setupVars, venvVars, slugVars, mergeVars, comboVars,
                   bugxVars, laterVars>>

(***************************************************************************)
(* setup.py: main, one action per step of the installer.  did collects     *)
(* what a run does to the machine as pairs <<kind, object>>.               *)
(***************************************************************************)
\* three of the tools of TOOLS that are not in venv_tools_all, setup.py:31-57
normal_tools == {"subfinder", "gf", "xpoc"}
\* two of venv_tools_all, setup.py:701
venv_tools == {"eyewitness", "paramspider"}

InitSetup ==
    /\ check \in BOOLEAN
    /\ on_path \in SUBSET (normal_tools \cup venv_tools)
    /\ venv_dir \in BOOLEAN
    /\ rc_alias \in BOOLEAN
    /\ setup_pc = "step1"
    /\ did = {}
    /\ report = [installed |-> {}, missing |-> {}]
    /\ run_no = 1
    /\ prev = [installed |-> {}, missing |-> {}]
    /\ OthersIdle("setup")

\* run_system_update unless --check, then STEP 1: a tool on the PATH is
\* reported, a missing one is reported missing under --check and installed
\* by its method otherwise, setup.py:693-750
InstallNormalTools ==
    /\ setup_pc = "step1"
    /\ \E ok \in SUBSET (normal_tools \ on_path) :
         /\ check => ok = {}
         /\ on_path' = on_path \cup ok
         /\ report' = [installed |-> (normal_tools \cap on_path) \cup ok,
                       missing |-> normal_tools \ (on_path \cup ok)]
    /\ did' = IF check THEN did
              ELSE did \cup {<<"run", "apt-get upgrade">>}
                       \cup {<<"install", name>> : name \in normal_tools \ on_path}
    /\ setup_pc' = "step2"
    /\ UNCHANGED <<check, venv_dir, rc_alias, run_no, prev, speedVars, venvVars, slugVars,
                   mergeVars, comboVars, bugxVars, laterVars>>

\* STEP 2: ensure_global_venv creates ~/venv when it is missing and
\* ensure_shell_aliases appends the alias block to the rc files that lack it,
\* with or without --check; install_requirements only without --check and
\* when requirements.txt exists, setup.py:150-173, 451-458, 753-758
EnsureGlobalVenv ==
    /\ setup_pc = "step2"
    /\ venv_dir' = TRUE
    /\ rc_alias' = TRUE
    /\ \E requirements_txt \in BOOLEAN :
         did' = did \cup (IF venv_dir THEN {} ELSE {<<"create", "~/venv">>})
                    \cup (IF rc_alias THEN {} ELSE {<<"append", "~/.bashrc">>})
                    \cup (IF ~check /\ requirements_txt
                             THEN {<<"install", "requirements.txt">>} ELSE {})
    /\ setup_pc' = "step3"
    /\ UNCHANGED <<check, on_path, report, run_no, prev, speedVars, venvVars, slugVars,
                   mergeVars, comboVars, bugxVars, laterVars>>

\* STEP 3: the installer of every venv tool is called, whatever --check says
\* and whether or not the tool is there: a git clone or pull, the wrapper
\* written under /tmp and moved to /usr/local/bin, setup.py:763-784, 481-617
InstallVenvTools ==
    /\ setup_pc = "step3"
    /\ \E ok \in SUBSET venv_tools :
         /\ on_path' = on_path \cup ok
         /\ report' = [installed |-> report.installed \cup ok,
                       missing |-> report.missing \cup (venv_tools \ ok)]
    /\ did' = did \cup {<<"install", name>> : name \in venv_tools}
                  \cup {<<"write", "/tmp/eyewitness_wrap.sh">>, <<"write", "/tmp/paramspider.sh">>}
    /\ setup_pc' = "step4"
    /\ UNCHANGED <<check, venv_dir, rc_alias, run_no, prev, speedVars, venvVars, slugVars,
                   mergeVars, comboVars, bugxVars, laterVars>>

\* STEP 4 and 4.5: install_xpoc when xpoc is not on the PATH, whatever --check
\* says; wordlists and gf are installed on every run without --check,
\* setup.py:789-808
InstallXpocAndGf ==
    /\ setup_pc = "step4"
    /\ \E ok \in SUBSET (({"xpoc"} \ on_path) \cup (IF check THEN {} ELSE {"gf"})) :
         on_path' = on_path \cup ok
    /\ did' = did \cup {<<"install", name>> : name \in {"xpoc"} \ on_path}
                  \cup (IF check THEN {} ELSE {<<"install", "wordlists">>, <<"install", "gf">>})
    /\ setup_pc' = "step5"
    /\ UNCHANGED <<check, venv_dir, rc_alias, report, run_no, prev, speedVars, venvVars,
                   slugVars, mergeVars, comboVars, bugxVars, laterVars>>

\* STEP 5: gf is added to installed when it is on the PATH, the summary is
\* written to install_report.json, report.py runs unless --check,
\* setup.py:814-852
SaveReport ==
    /\ setup_pc = "step5"
    /\ report' = [report EXCEPT
                    !.installed = @ \cup (IF "gf" \in on_path THEN {"gf"} ELSE {})]
    /\ did' = did \cup {<<"write", "install_report.json">>}
                  \cup (IF check THEN {} ELSE {<<"run", "report.py">>})
    /\ setup_pc' = "done"
    /\ UNCHANGED <<check, on_path, venv_dir, rc_alias, run_no, prev, speedVars, venvVars,
                   slugVars, mergeVars, comboVars, bugxVars, laterVars>>

\* setup.py is run again, without --check, directly after a run without it
SecondRun ==
    /\ setup_pc = "done"
    /\ run_no = 1
    /\ ~check
    /\ run_no' = 2
    /\ prev' = report
    /\ report' = [installed |-> {}, missing |-> {}]
    /\ did' = {}
    /\ setup_pc' = "step1"
    /\ UNCHANGED <<check, on_path, venv_dir, rc_alias, speedVars, venvVars, slugVars,
                   mergeVars, comboVars, bugxVars, laterVars>>

(***************************************************************************)
(* ensure_venv_execution and main, tools.py:124-143 and 1401-1417          *)
(***************************************************************************)
\* mutant: the child gets the environment of its parent as it is
ChildProcessSameEnv(parent) ==
    [virtual_env |-> parent.virtual_env, no_recurse |-> parent.no_recurse, st |-> "start",
     returncode |-> 0]
\* env = os.environ.copy(); env["BUGX_NO_RECURSE"] = "1"; the child is
\* ~/venv/bin/python3 on the same script
ChildProcess(parent) ==
    [virtual_env |-> parent.virtual_env, no_recurse |-> TRUE, st |-> "start", returncode |-> 0]

InitVenv ==
    /\ venv_python \in BOOLEAN
    /\ procs \in {<<[virtual_env |-> v, no_recurse |-> n, st |-> "start", returncode |-> 0]>> :
                     v \in BOOLEAN, n \in BOOLEAN}
    /\ OthersIdle("venv")

\* ensure_venv_execution up to its return, its sys.exit(1) or the start of
\* subprocess.call, tools.py:128-139
EnsureVenvExecution(i) ==
    /\ procs[i].st = "start"
    /\ procs' = CASE procs[i].virtual_env \/ procs[i].no_recurse ->
                        [procs EXCEPT ![i].st = "main"]
                   [] ~venv_python ->
                        [procs EXCEPT ![i].st = "exited", ![i].returncode = 1]
                   [] OTHER ->
                        Append([procs EXCEPT ![i].st = "call"], ChildProcess(procs[i]))
    /\ (procs[i].virtual_env \/ procs[i].no_recurse \/ ~venv_python) \/ Len(procs) < MaxDepth
    /\ UNCHANGED <<venv_python, setupVars, speedVars, slugVars, mergeVars, comboVars, bugxVars,
                   laterVars>>

\* the process that went on into main ends: sys.exit(code) of a menu or an
\* uncaught exception, or a signal ends it (returncode -9 for its parent)
MainExits(i) ==
    /\ procs[i].st = "main"
    /\ \E code \in (0..MaxExit) \cup {-9} :
         procs' = [procs EXCEPT ![i].st = "exited", ![i].returncode = code]
    /\ UNCHANGED <<venv_python, setupVars, speedVars, slugVars, mergeVars, comboVars, bugxVars,
                   laterVars>>

\* code = subprocess.call(...) returns; finally: clear, print; sys.exit(code),
\* whose status is code modulo 256: tools.py:139-143
CallReturns(i) ==
    /\ procs[i].st = "call"
    /\ i < Len(procs)
    /\ procs[i + 1].st = "exited"
    /\ procs' = [procs EXCEPT ![i].st = "exited", ![i].returncode = procs[i + 1].returncode % 256]
    /\ UNCHANGED <<venv_python, setupVars, speedVars, slugVars, mergeVars, comboVars, bugxVars,
                   laterVars>>

(***************************************************************************)
(* Specifications                                                          *)
(***************************************************************************)

SpecSlug ==
    InitSlug /\ [][SlugifyPlain \/ SlugifyPrefixed]_vars

SpecMerge ==
    InitMerge /\ [][CombineUniqueFiles]_vars

SpecCombo ==
    InitCombo /\ [][
        \/ StartWorkflow
        \/ RunComboTool
        \/ ChildExit
        \/ Tick
        \/ StreamProcessReturn
        \/ KeyboardInterrupt
        \/ CombineStep
        \/ RunGfFilter
        \/ PrintSummary
    ]_vars

SpecBugx ==
    InitBugx /\ [][
        \/ RunMode
        \/ ExecuteCommand
        \/ ToolEnds
        \/ ClockTick
        \/ WaitReturns
        \/ TimeoutExpired
        \/ ReaderFinishes
        \/ JoinStdout
        \/ JoinStderr
        \/ OrphanEnds
        \/ LeakedReadersFinish
        \/ ReconCheck
        \/ Collect
        \/ FinishMode
    ]_vars

SpecFlags ==
    InitFlags /\ [][ChooseFlags \/ BuildCommand]_vars

SpecList ==
    InitList /\ [][PromptDomain \/ PromptListFile \/ ExecuteComboWorkflow \/ LoopEnds]_vars

SpecUrl ==
    InitUrl /\ [][RunKatana \/ RunGau \/ MergeUrls \/ RunGf]_vars

SpecScratch ==
    InitScratch /\ [][
        \E r \in Runs :
        \/ ReconWrites(r)
        \/ ReconReads(r)
        \/ SqlmapWrites(r)
        \/ SqlmapWalk(r)
        \/ CleanupTmp(r)
    ]_vars

SpecSpeed ==
    InitSpeed /\ [][ReadSpeed \/ RunModeWithSpeed]_vars

SpecSetup ==
    InitSetup /\ [][InstallNormalTools \/ EnsureGlobalVenv \/ InstallVenvTools
                      \/ InstallXpocAndGf \/ SaveReport \/ SecondRun]_vars

SpecVenv ==
    InitVenv /\ [][\E i \in DOMAIN procs :
                        EnsureVenvExecution(i) \/ MainExits(i) \/ CallReturns(i)]_vars

SpecDirs ==
    InitDirs /\ [][\E k \in Calls :
                        LookupRaises(k) \/ BuildCommandReturns(k) \/ StreamProcess(k)]_vars

(***************************************************************************)
(* C1  combine_unique_files                                                *)
(***************************************************************************)
\* t is line L without its leading and trailing whitespace
IsTrimOf(t, L) ==
    \E i \in 1..Len(L), j \in 1..Len(L) :
        /\ i <= j
        /\ t = SubSeq(L, i, j)
        /\ L[i] \notin Whitespace
        /\ L[j] \notin Whitespace
        /\ \A k \in 1..Len(L) : (k < i \/ k > j) => L[k] \in Whitespace

\* positions <<file index, line index>> of the lines of the existing inputs
InputPositions ==
    {<<k, n>> \in (1..Len(mfiles)) \X (1..(MaxFileLines + 1)) :
        /\ mfs[mfiles[k]].exists
        /\ n <= Len(mfs[mfiles[k]].lines)}

InputLine(pos) == mfs[mfiles[pos[1]]].lines[pos[2]]

Before(p, q) == p[1] < q[1] \/ (p[1] = q[1] /\ p[2] < q[2])

\* the first position at which the trimmed line t occurs in the inputs
IsFirstPos(t, p) ==
    /\ p \in InputPositions
    /\ IsTrimOf(t, InputLine(p))
    /\ \A q \in InputPositions : IsTrimOf(t, InputLine(q)) => ~Before(q, p)

\* C1: after combine_unique_files(files, destination) the destination holds
\* exactly the trimmed, non-empty lines of the existing input files, each
\* once, byte for byte, in the order of their first occurrence.
C1_MergeIsOrderedUnion ==
    mpc = "done" =>
        LET out == mfs[MergeDest].lines
        IN  /\ mfs[MergeDest].exists
            /\ \A i \in 1..Len(out) : \E p \in InputPositions : IsTrimOf(out[i], InputLine(p))
            /\ \A p \in InputPositions :
                   \A i \in 1..Len(InputLine(p)), j \in 1..Len(InputLine(p)) :
                       IsTrimOf(SubSeq(InputLine(p), i, j), InputLine(p))
                           => \E k \in 1..Len(out) : out[k] = SubSeq(InputLine(p), i, j)
            /\ \A i \in 1..Len(out), j \in 1..Len(out) : i # j => out[i] # out[j]
            /\ \A i \in 1..Len(out), j \in 1..Len(out) :
                   i < j => \E p \in InputPositions, q \in InputPositions :
                                /\ IsFirstPos(out[i], p)
                                /\ IsFirstPos(out[j], q)
                                /\ Before(p, q)

\* witness: files [a, b<tab>] and [b<tab>, A, blank] merge to a, b, A
C1_Witness ==
    /\ mpc = "done"
    /\ mfiles = <<"f1", "f2">>
    /\ mfs["f1"] = File(<<<<"a">>, <<"b", "\t">>>>)
    /\ mfs["f2"] = File(<<<<"b", "\t">>, <<"A">>>>)
    /\ mfs[MergeDest] = File(<<<<"a">>, <<"b">>, <<"A">>>>)

\* C29: a call of combine_unique_files leaves the destination in place and
\* the inputs as they were (a missing input stays missing), returns the number
\* of lines of the destination, which is also the number of its non-blank
\* lines, and leaves it empty when no existing input has a non-blank line.
C29_MergeCreatesAndCounts ==
    [][(mpc = "call" /\ mpc' = "done")
          => /\ mfs'[MergeDest].exists
             /\ \A f \in MergeInputs : mfs'[f] = mfs[f]
             /\ mret' = Len(mfs'[MergeDest].lines)
             /\ mret' = Cardinality({i \in 1..Len(mfs'[MergeDest].lines) :
                                        strip(mfs'[MergeDest].lines[i]) # <<>>})
             /\ (\A i \in 1..Len(mfiles) :
                    mfs[mfiles[i]].exists
                        => \A k \in 1..Len(mfs[mfiles[i]].lines) :
                              strip(mfs[mfiles[i]].lines[k]) = <<>>)
                   => mfs'[MergeDest].lines = <<>>]_vars

\* the first input is missing, the second has one blank and one non-blank
\* line: the call has returned 1
C29_Witness ==
    /\ mpc = "done"
    /\ mfiles = <<"f1", "f2">>
    /\ ~mfs["f1"].exists
    /\ mfs["f2"] = File(<<<<>>, <<" ", "a">>>>)
    /\ mfs[MergeDest] = File(<<<<"a">>>>)
    /\ mret = 1

(***************************************************************************)
(* C2 - C5  combo workflows                                                *)
(***************************************************************************)
\* every run_combo_tool call of the workflow body has been reached
AllToolsReached ==
    \A k \in 1..Len(Workflow(choice)) :
        Workflow(choice)[k].op = "tool"
            => \E i \in 1..Len(steps) : steps[i].tool = Workflow(choice)[k].tool

\* C2 as stated: whenever a step is launched with a file path as its input,
\* that file exists at launch time.
C2_InputFileExists ==
    \A i \in 1..Len(steps) :
        (steps[i].st # "raised" /\ steps[i].is_file) => steps[i].input_exists

\* C3 as stated: a step that exits with a non-zero code is reported as a value
\* and every later step of the workflow is still executed.
C3_NonZeroExitContinues ==
    (cstate = "printed" /\ \E i \in 1..Len(steps) : steps[i].st = "exited" /\ steps[i].rc # 0)
        => /\ AllToolsReached
           /\ \A i \in 1..Len(steps) : steps[i].st = "exited"

\* C4 as stated: a step whose binary is absent from the search path is skipped
\* and all remaining steps of the workflow are still executed.
C4_AbsentBinarySkipped ==
    (cstate = "printed" /\ \E i \in 1..Len(steps) : steps[i].st = "raised" \/ steps[i].rc = 127)
        => AllToolsReached

\* C5 as stated: stream_process enforces a wall-clock timeout, so it is never
\* still blocked on a running child once the allowance (any value up to
\* MaxWait seconds) has elapsed.
C5_StreamProcessTimesOut ==
    ~(child.st = "running" /\ waited = MaxWait)

\* C12 as stated: a workflow stops before its last step only after a keyboard
\* interrupt or an environment error (here the OSError of a merge); a tool
\* that fails (non-zero exit, absent binary) never stops it.
C12_AbortOnlyOnCancelOrEnvError ==
    (cstate \in {"printed", "interrupted"} /\ ~AllToolsReached)
        => \/ cstate = "interrupted"
           \/ \E i \in 1..Len(summary) : summary[i] = <<"error", "OSError">>

\* C13 as stated: once a keyboard interrupt has ended the run, the child that
\* was running is running no longer.
C13_CancellationStopsChild ==
    cstate = "interrupted" => child.st # "running"

\* C21 as stated: a step whose binary is not on the search path raises nothing
\* to the caller of stream_process, has no process spawned for it, and leaves
\* no output file behind that was not there before.
C21_AbsentBinaryDetectedBeforeSpawn ==
    /\ \A i \in 1..Len(steps) : steps[i].st # "raised"
    /\ child.st # "none" => child.present
    /\ (child.st # "none" /\ ~child.present) => ~cfs[OutputName(CurrentOp.tool)].exists

\* C27: a run_gf_filter call on an existing source leaves the destination in
\* place; when gf is absent or exits non-zero the destination holds the lines
\* of the source; the returned count is the number of non-blank lines of the
\* destination.
C27_GfFilterPassthrough ==
    [][(AtOp("gf") /\ cpc' = cpc + 1 /\ cfs[CurrentOp.target].exists)
          => /\ cfs'[CurrentOp.dest].exists
             /\ gf_status' \in {"absent", "failed"}
                   => cfs'[CurrentOp.dest].lines = cfs[CurrentOp.target].lines
             /\ Len(counts') = Len(counts) + 1
             /\ counts'[Len(counts')]
                   = Cardinality({i \in 1..Len(cfs'[CurrentOp.dest].lines) :
                                     strip(cfs'[CurrentOp.dest].lines[i]) # <<>>})]_vars

\* gf exited non-zero on a source that has lines, and the candidates file
\* holds them
C27_Witness ==
    /\ gf_status = "failed"
    /\ cfs["urls_all.txt"].exists
    /\ Len(cfs["urls_all.txt"].lines) > 0
    /\ cfs["xss_candidates.txt"].exists
    /\ cfs["xss_candidates.txt"].lines = cfs["urls_all.txt"].lines
    /\ counts # <<>>
    /\ counts[Len(counts)] = Len(cfs["urls_all.txt"].lines)

\* C28: the focus index of every run_combo_tool call of a workflow is an index
\* of the tool's focus_options, and the focus is a file-mode one exactly when
\* the target of the step is a file of the combo directory written by an
\* earlier step, not the target the user gave.
C28_FocusMatchesTarget ==
    /\ AtOp("tool") => CurrentOp.focus \in 0..(FocusCount(CurrentOp.tool) - 1)
    /\ \A i \in 1..Len(steps) :
          /\ steps[i].is_file <=> steps[i].target \in ComboPaths
          /\ steps[i].target \in ComboPaths
                => \/ \E h \in 1..(i - 1) : OutputName(steps[h].tool) = steps[i].target
                   \/ \E j \in 1..Len(Workflow(choice)) :
                         /\ j < cpc
                         /\ Workflow(choice)[j].op \in {"merge", "gf"}
                         /\ Workflow(choice)[j].dest = steps[i].target

\* workflow 1 has run steps on the user's target and, after the merge, dnsx
\* on the merged list
C28_Witness ==
    /\ choice = "1"
    /\ Len(steps) >= 4
    /\ ~steps[1].is_file
    /\ steps[1].target = Literal
    /\ steps[4].tool = "dnsx"
    /\ steps[4].is_file
    /\ steps[4].target = "subdomains_all.txt"

(***************************************************************************)
(* C6 - C8  BugxRunner                                                     *)
(***************************************************************************)
\* C6: _execute_command with timeout T never stays blocked on a running child
\* beyond T; it leaves the wait on a running child only at T, by killing and
\* reaping the child and returning False; every call is back at its caller
\* within T plus the two reader joins.
C6_TimeoutKillsAndReturnsFalse ==
    /\ [](/\ (ex = "wait" /\ process.st = "running") => elapsed <= timeout
          /\ (ex # "idle") => elapsed <= timeout + 2 * JoinTimeout
          /\ (ex = "idle" /\ process.st = "reaped") => ret = "False")
    /\ [][(ex = "wait" /\ process.st = "running" /\ ex' # "wait")
             => /\ elapsed = timeout
                /\ process'.st = "reaped"
                /\ ret' = "False"
                /\ ex' = "idle"
                /\ bstate' = "running"]_vars

\* a call whose child outlived the timeout has returned False to the mode function
C6_Witness ==
    /\ bstate = "running"
    /\ ex = "idle"
    /\ process.st = "reaped"
    /\ ret = "False"
    /\ console # <<>>
    /\ console[Len(console)].status = "error"

\* C7 as stated: a step is never started while the process of an earlier step,
\* or a descendant of it, is still running.
C7_OneStepAtATime ==
    \A i \in 1..Len(launches) : launches[i].running_before = {}

\* the per-step entries of the summary box printed last
SummarySteps ==
    IF console # <<>> /\ console[Len(console)].kind = "summary"
    THEN SelectSeq(console[Len(console)].entries, LAMBDA e : e[1] \in {"subfinder", "httpx"})
    ELSE <<>>

HttpxReadsSubdomainsFile ==
    /\ Len(launches) >= 2
    /\ launches[1].tool = "subfinder"
    /\ launches[2].tool = "httpx"
    /\ launches[2].option = "-l"
    /\ launches[2].input = "subdomains.txt"

FooterTools == [i \in 1..Len(console) |-> console[i].tool]

C16_ReadersJoinedAtReturn ==
    leaked = {}

(***************************************************************************)
(* C9, C10  slugify_target                                                 *)
(***************************************************************************)
\* r has no leading whitespace and starts with neither a scheme nor "www."
PlainTarget(r) ==
    /\ r = <<>> \/ r[1] \notin Whitespace
    /\ ~startswith(lower(r), HTTPS)
    /\ ~startswith(lower(r), HTTP)
    /\ ~startswith(lower(r), WWW)

\* C9 as stated: two targets that differ only by a scheme prefix or a
\* "www." prefix always have the same slug.
C9_Original ==
    called = {"plain", "prefixed"} => slug = prefixedSlug

\* C9 amended: when the shorter target has no leading whitespace and does not
\* itself start with "http://", "https://" or "www.", putting a scheme, "www."
\* or a scheme followed by "www." in front of it leaves the slug unchanged.
C9_PrefixKeepsSlug ==
    (called = {"plain", "prefixed"} /\ PlainTarget(raw)) => slug = prefixedSlug

\* witness: "a.1" and "https://www.a.1" both give "a"
C9_Witness ==
    /\ called = {"plain", "prefixed"}
    /\ raw = <<"a", ".", "1">>
    /\ prefix = HTTPS \o WWW
    /\ slug = <<"a">>
    /\ prefixedSlug = <<"a">>

SlugAlphabet == {"a", "h", "t", "p", "s", "w", "r", "g", "e", "1", "_"}

\* C10 as stated: for every target accepted by validate_domain the slug is
\* non-empty and made only of characters in [a-z0-9_] (the literal "target"
\* when nothing else is left).
C10_SlugCharset ==
    ("plain" \in called /\ validate_domain(raw)) =>
        /\ slug # <<>>
        /\ \A i \in 1..Len(slug) : slug[i] \in SlugAlphabet
        /\ FirstLabel(StripWww(FirstField(StripScheme(StripScheme(lower(strip(raw)), HTTPS), HTTP), "/"))) = <<>>
               => slug = TARGET

(***************************************************************************)
(* C11  flags of the built command                                         *)
(***************************************************************************)
\* the number of positions of the command line that hold word w
Occurrences(w) == Cardinality({i \in 1..Len(command) : command[i] = w})

DefaultWords == {DefaultFlags(ftool)[i][1] : i \in 1..Len(DefaultFlags(ftool))}
SelectedWords == {selected[i][1] : i \in 1..Len(selected)}

\* C11 as stated: when the caller picked flags, a default flag of the tool is
\* in the command only if the caller picked it; when the caller picked none,
\* every default flag of the tool is in the command exactly once.
C11_ChosenFlagsReplaceDefaults ==
    fpc = "done" =>
        IF selected # <<>>
        THEN \A w \in DefaultWords : Occurrences(w) > 0 => w \in SelectedWords
        ELSE \A w \in DefaultWords : Occurrences(w) = 1

(***************************************************************************)
(* C14  validation of targets                                              *)
(***************************************************************************)
\* C14 as stated: every target a workflow is executed on has passed
\* validate_domain, whether it was typed or read from a list file.
C14_ExecutedTargetsAreValid ==
    \A i \in 1..Len(executed) : validate_domain(executed[i])

(***************************************************************************)
(* C15  a failed merge                                                     *)
(***************************************************************************)
\* C15 as stated: no step that reads the merged file is started after the
\* merge has failed.
C15_FailedMergeStopsPipeline ==
    \A i \in 1..Len(ulaunches) :
        ulaunches[i].input = "all_urls.txt" => ulaunches[i].merged = "ok"

(***************************************************************************)
(* C17  the scratch directory                                              *)
(***************************************************************************)
\* C17 as stated: no scan reads, overwrites or deletes a scratch item that
\* belongs to another scan that is still running.
C17_ScratchIsPrivate ==
    touched = {}

(***************************************************************************)
(* C18 - C20  output directories and artifact names                        *)
(***************************************************************************)
\* C18 as stated: two workflow runs on distinct targets have distinct output
\* directories, so they never return the same path.
C18_DistinctTargetsDistinctDirs ==
    (/\ results[1].returned
     /\ results[2].returned
     /\ calls[1].mode = "combo"
     /\ calls[2].mode = "combo"
     /\ calls[1].domain # calls[2].domain)
        => results[1].dir # results[2].dir

\* C19: when build_command has returned, output_root/<slug>/ exists, and so
\* does the returned path itself when the artifact is a directory.
C19_OutputDirExists ==
    \A k \in Calls :
        results[k].returned
            => /\ results[k].dir.slug = SlugName(calls[k])
               /\ results[k].dir \in dirs
               /\ results[k].ext = "" => [results[k].dir EXCEPT !.sub = results[k].stem] \in dirs

\* both calls have returned, one for a file artifact and one for sqlmap, whose
\* artifact is a directory
C19_Witness ==
    /\ results[1].returned
    /\ results[2].returned
    /\ calls[1].tool = "subfinder"
    /\ calls[1].mode = "single"
    /\ calls[2].tool = "sqlmap"
    /\ calls[2].mode = "combo"
    /\ Cardinality(dirs) = 3

\* C20: the returned artifact is named after the tool, and two calls for the
\* same tool with the same output directory return the same path whatever
\* their flags, focus mode and target are.
C20_ArtifactNamedAfterTool ==
    /\ \A k \in Calls : results[k].returned => results[k].stem = calls[k].tool
    /\ (/\ results[1].returned
        /\ results[2].returned
        /\ calls[1].tool = calls[2].tool
        /\ results[1].dir = results[2].dir)
           => /\ results[1].stem = results[2].stem
              /\ results[1].ext = results[2].ext

\* two httpx calls into the same directory that differ in target, focus mode
\* and flags
C20_Witness ==
    /\ results[1].returned
    /\ results[2].returned
    /\ calls[1].tool = "httpx"
    /\ calls[2].tool = "httpx"
    /\ TargetValue(calls[1]) # TargetValue(calls[2])
    /\ calls[1].is_file # calls[2].is_file
    /\ calls[1].custom_flags # calls[2].custom_flags
    /\ results[1].dir = results[2].dir
    /\ results[1].stem = results[2].stem
    /\ results[1].ext = results[2].ext

(***************************************************************************)
(* C22, C26  the registry lookup and the form of the built command         *)
(***************************************************************************)
\* C22: a call that names a tool outside the registry never returns a command,
\* raises ValueError or KeyError, has no directory made and no process spawned
\* for it (the directories that exist are those of the calls that returned),
\* and the registry stays what it was.
C22_UnknownToolRaisesFirst ==
    /\ registry = RegisteredTools
    /\ dirs = UNION {MadeDirs(calls[j]) : j \in {i \in Calls : results[i].returned}}
    /\ \A k \in Calls :
          /\ calls[k].tool \notin RegisteredTools
                => /\ ~results[k].returned
                   /\ ~results[k].spawned
                   /\ results[k].raised \in {"", "ValueError", "KeyError"}
          /\ results[k].raised # "" => calls[k].tool \notin RegisteredTools

\* the first call named an unregistered tool in a combo run and has raised,
\* the second one, for a registered tool and the same slug, has gone through
C22_Witness ==
    /\ calls[1].tool = "unregistered"
    /\ calls[1].mode = "combo"
    /\ results[1].raised = "ValueError"
    /\ calls[2].tool = "subfinder"
    /\ calls[2].mode = "combo"
    /\ calls[2].domain = calls[1].domain
    /\ results[2].spawned
    /\ Cardinality(dirs) = 1

\* C26: the returned command is a string exactly for assetfinder, gau,
\* waybackurls and httprobe, a list for every other tool, and the returned
\* shell flag is true exactly when the command is a string.
C26_ShellOnlyForPipelines ==
    \A k \in Calls :
        results[k].returned
            => /\ results[k].command = "str"
                    <=> calls[k].tool \in {"assetfinder", "gau", "waybackurls", "httprobe"}
               /\ results[k].command \in {"str", "list"}
               /\ results[k].shell <=> results[k].command = "str"

\* build_command has returned a shell string for httprobe and an argument
\* vector for nmap, and both commands have been started
C26_Witness ==
    /\ calls[1].tool = "httprobe"
    /\ results[1].spawned
    /\ results[1].shell
    /\ calls[2].tool = "nmap"
    /\ results[2].spawned
    /\ ~results[2].shell

(***************************************************************************)
(* C25  the speed prompt                                                   *)
(***************************************************************************)
\* C25 as stated: the prompt never fails; what was typed, without the blanks
\* around it, gives its decimal value when it is a non-empty string of the
\* decimal digits and 50 otherwise; every command built for the run carries
\* that value.
C25_SpeedParsedWithFallback ==
    speed_pc # "prompt"
        => LET stripped == strip(typed_speed)
               decimal == stripped # <<>> /\ \A i \in 1..Len(stripped) : stripped[i] \in {"0", "5"}
           IN  /\ speed_pc # "ValueError"
               /\ ~speed.raised
               /\ decimal => speed.value = int(stripped).value
               /\ ~decimal => speed.value = 50
               /\ \A i \in 1..Len(speed_cmds) : speed_cmds[i].value = speed.value

C23_CheckOnlyReports ==
    check => did \subseteq {<<"write", "install_report.json">>}

\* C24: in a second run directly after a first run that reported nothing
\* missing, no install action is performed, and the finished second run
\* reports the installed set of the first with nothing missing.
C24_SecondRunInstallsNothing ==
    (run_no = 2 /\ prev.missing = {})
        => /\ \A d \in did : d[1] # "install"
           /\ setup_pc = "done" => (report.installed = prev.installed /\ report.missing = {})

====
